---- MODULE Spec2Model ----
(***************************************************************************)
(* A model of the middle tier of the bramble-lang compiler:                *)
(*   - the symbol table scope stack (compiler/semantics/stack.rs),         *)
(*   - the resolver's walk over routines and expression blocks             *)
(*     (compiler/semantics/type_resolver.rs),                              *)
(*   - the MIR builder that lowers a routine body to basic blocks          *)
(*     (compiler/mir/transform.rs),                                        *)
(*   - the MIR traverser that replays a procedure against a Transformer    *)
(*     (compiler/mir/ops/traverser.rs),                                    *)
(*   - the items of a syntax tree module (ast/module.rs),                  *)
(*   - the parser's cursor over the tokens (compiler/parser/tokenstream.rs).*)
(* Each part has its own specification over the shared variables; the      *)
(* variables of the other parts stay at their idle values.                 *)
(***************************************************************************)
EXTENDS Integers, Sequences, FiniteSets, TLC

VARIABLES
    stack,      \* SymbolTableScopeStack.stack : Vec<SymbolTable>
    head,       \* SymbolTableScopeStack.head  : SymbolTable
    ret,        \* the result of the last add / lookup call
    left,       \* history: what the last leave_scope returned and was expected to restore
    hist,       \* history: one entry per unmatched enter_scope
    spanic,     \* TRUE once leave_scope has panicked on an empty stack
    rpc,        \* TypeResolver: where the walk over the module is
    rtodo,      \* TypeResolver: the routines of the module still to be analyzed
    rplan,      \* the program: for each routine, the names it binds (parameters and lets)
    rdepth,     \* TypeResolver: expression blocks open in the current routine
    rbound,     \* history: for each routine, the names it has bound so far
    rlast,      \* the last lookup_var made by analyze_expression
    blocks,     \* MirBuilder.proc: the basic blocks, BasicBlockId i at index i + 1
    ntemps,     \* MirBuilder.proc: the number of temporaries declared
    mvars,      \* MirBuilder.proc: the user variables declared, VarId i at index i + 1
    current_bb, \* MirBuilder.current_bb : Option<BasicBlockId>
    mwork,      \* FuncTransformer: what is left to lower, the next task first
    mvals,      \* FuncTransformer: the operands returned by the calls that finished
    mpc,        \* FuncTransformer::transform: "init", "run" or "done"
    mlog,       \* history: the if-expressions and returns lowered, the terminators set
    tproc,      \* Traverser: the Procedure being replayed
    tpc,        \* Traverser::map: the step it is at
    tpos,       \* Traverser: the block and statement the replay is at
    calls,      \* the calls made on the Transformer, in order
    parsed,     \* resolve_types_with_imports: the module the parser produced
    sm_ast,     \* resolve_types_with_imports: the semantic tree, or the error that ended the run
    pass,       \* resolve_types_with_imports: the pass that runs next
    main_fn,    \* TypeResolver.main_fn: the path of the entry point
    ast_module, \* ast::Module: the module that items are added to
    mret,       \* the last add_* call on the module, its result and the module before it
    tokens,     \* TokenStream.tokens : &Vec<Token>
    index,      \* TokenStream.index  : usize
    tret        \* the last call on the token stream, its result and the index before it

stackVars == <<stack, head, ret, left, hist, spanic>>

resolveVars == <<rpc, rtodo, rplan, rdepth, rbound, rlast>>

mirVars == <<blocks, ntemps, mvars, current_bb, mwork, mvals, mpc, mlog>>

travVars == <<tproc, tpc, tpos, calls>>

pipeVars == <<parsed, sm_ast, pass, main_fn>>

moduleVars == <<ast_module, mret>>

streamVars == <<tokens, index, tret>>

vars == <<stack, head, ret, left, hist, spanic, rpc, rtodo, rplan, rdepth, rbound, rlast,
          blocks, ntemps, mvars, current_bb, mwork, mvals, mpc, mlog,
          tproc, tpc, tpos, calls, parsed, sm_ast, pass, main_fn,
          ast_module, mret, tokens, index, tret>>

(***************************************************************************)
(* Bounds                                                                  *)
(***************************************************************************)
\* the largest number of tables held on SymbolTableScopeStack.stack
MaxDepth == 2

\* the deepest nesting of expression blocks in a routine body
MaxBlockDepth == 1

(***************************************************************************)
(* Small helpers                                                           *)
(***************************************************************************)
None == <<"None">>

Some(v) == <<"Some", v>>

IsSome(o) == o[1] = "Some"

Last(s) == s[Len(s)]

Front(s) == SubSeq(s, 1, Len(s) - 1)

(***************************************************************************)
(* Paths: a sequence of segments; the canonical root is the sentinel       *)
(***************************************************************************)
CANONICAL_ROOT == "root"

\* Path::pop, as used by get_symbol: drops the last segment, None when empty
path_pop(p) == IF Len(p) = 0 THEN None ELSE Some(Front(p))

(***************************************************************************)
(* Symbols and symbol tables                                               *)
(***************************************************************************)
Symbol(name, ty, mutable, is_extern) ==
    [name |-> name, ty |-> ty, mutable |-> mutable, is_extern |-> is_extern]

\* ScopeType
Local == <<"Local">>

Routine(name) == <<"Routine", name>>

Module(name) == <<"Module", name>>

\* ScopeType::is_boundary
is_boundary(scope_type) == scope_type[1] \in {"Routine", "Module"}

\* SymbolTable::new and friends: a scope type and the symbols in insertion order
SymbolTable(scope_type, sym) == [ty |-> scope_type, sym |-> sym]

RECURSIVE table_find(_, _, _)
\* the index of the first symbol called name at or after index i, 0 when absent
table_find(sym, name, i) ==
    IF i > Len(sym) THEN 0
    ELSE IF sym[i].name = name THEN i
    ELSE table_find(sym, name, i + 1)

\* SymbolTable::get
table_get(t, name) ==
    LET i == table_find(t.sym, name, 1)
    IN  IF i = 0 THEN None ELSE Some(t.sym[i])

\* SymbolTable::add: AlreadyDeclared when the table holds the name, else appended
table_add(t, name, ty, mutable, is_extern) ==
    IF IsSome(table_get(t, name))
    THEN [ok |-> FALSE, err |-> <<"AlreadyDeclared", name>>, table |-> t]
    ELSE [ok |-> TRUE, err |-> None,
          table |-> [t EXCEPT !.sym = Append(@, Symbol(name, ty, mutable, is_extern))]]

(***************************************************************************)
(* SymbolTableScopeStack (compiler/semantics/stack.rs)                     *)
(***************************************************************************)
\* enter_scope: push the head, the given table becomes the head
enter_scope(st, hd, sym) == [stack |-> Append(st, hd), head |-> sym]

\* a plausible slip: the head is read after the pop, so the restored table is returned
leave_scope_after_pop(st, hd) == [stack |-> Front(st), head |-> Last(st), ret |-> Last(st)]

\* leave_scope: the head is returned and the popped table becomes the head
leave_scope(st, hd) == [stack |-> Front(st), head |-> Last(st), ret |-> hd]

RECURSIVE to_path_steps(_, _)
\* the loop of to_path over the stack, bottom first: Module and Routine names
to_path_steps(st, i) ==
    IF i > Len(st) THEN <<>>
    ELSE (IF st[i].ty[1] \in {"Module", "Routine"} THEN <<st[i].ty[2]>> ELSE <<>>)
         \o to_path_steps(st, i + 1)

\* to_path: root, the named scopes of the stack, and the head when it is a Module
to_path(st, hd) ==
    <<CANONICAL_ROOT>> \o to_path_steps(st, 1)
        \o (IF hd.ty[1] = "Module" THEN <<hd.ty[2]>> ELSE <<>>)

RECURSIVE get_symbol_walk(_, _, _, _)
\* the find_map of get_symbol over stack.iter().rev(): table i, then the ones below.
\* A miss in a boundary scope pops cpath; the closure then yields the miss
\* (also when the pop finds nothing), so find_map goes on to the next table.
get_symbol_walk(st, name, i, cpath) ==
    IF i = 0 THEN None
    ELSE LET s == table_get(st[i], name)
         IN  IF IsSome(s) THEN Some(<<s[2], Append(cpath, name)>>)
             ELSE IF is_boundary(st[i].ty)
                  THEN LET p == path_pop(cpath)
                       IN  get_symbol_walk(st, name, i - 1,
                                           IF IsSome(p) THEN p[2] ELSE cpath)
                  ELSE get_symbol_walk(st, name, i - 1, cpath)

\* a plausible slip: the enclosing tables are searched before the head
get_symbol_stack_first(st, hd, name) ==
    LET cpath == to_path(st, hd)
        r == get_symbol_walk(st, name, Len(st), cpath)
        s == table_get(hd, name)
    IN  IF IsSome(r) THEN r
        ELSE IF IsSome(s) THEN Some(<<s[2], Append(cpath, name)>>) ELSE None

\* get_symbol: the head first, then the stack from the top down
get_symbol(st, hd, name) ==
    LET cpath == to_path(st, hd)
        s == table_get(hd, name)
    IN  IF IsSome(s) THEN Some(<<s[2], Append(cpath, name)>>)
        ELSE get_symbol_walk(st, name, Len(st), cpath)

\* a plausible slip: redeclaration is looked for in every table on the stack
add_any_scope(st, hd, name, ty, mutable, is_extern) ==
    IF \E i \in 1..Len(st) : IsSome(table_get(st[i], name))
    THEN [ok |-> FALSE, err |-> <<"AlreadyDeclared", name>>, stack |-> st, head |-> hd]
    ELSE LET r == table_add(hd, name, ty, mutable, is_extern)
         IN  [ok |-> r.ok, err |-> r.err, stack |-> st, head |-> r.table]

\* add: self.head.add(..), the stack is not touched
add(st, hd, name, ty, mutable, is_extern) ==
    LET r == table_add(hd, name, ty, mutable, is_extern)
    IN  [ok |-> r.ok, err |-> r.err, stack |-> st, head |-> r.table]

(***************************************************************************)
(* Types (compiler/ast/ty.rs) and paths                                    *)
(***************************************************************************)
I64 == <<"I64">>

I32 == <<"I32">>

Bool == <<"Bool">>

Unit == <<"Unit">>

Unknown == <<"Unknown">>

Custom(path) == <<"Custom", path>>

Array(ty, len) == <<"Array", ty, len>>

StructDef(fields) == <<"StructDef", fields>>

FunctionDef(params, rty) == <<"FunctionDef", params, rty>>

CoroutineDef(params, rty) == <<"CoroutineDef", params, rty>>

Coroutine(ty) == <<"Coroutine", ty>>

ExternDecl(params, has_varargs, rty) == <<"ExternDecl", params, has_varargs, rty>>

SELF == "self"

SUPER == "super"

\* Path::is_canonical: the first segment is the root sentinel
is_canonical(path) == Len(path) > 0 /\ path[1] = CANONICAL_ROOT

\* Path::item: the last segment
path_item(path) == IF Len(path) = 0 THEN None ELSE Some(Last(path))

RECURSIVE path_merge(_, _, _)
\* the loop of Path::to_canonical: super drops the last segment of the merged path,
\* any other segment is pushed
path_merge(merged, path, i) ==
    IF i > Len(path) THEN <<"Ok", merged>>
    ELSE IF path[i] = SUPER
         THEN IF Len(merged) <= 1 THEN <<"Err", "SuperExceedsDepth", path>>
              ELSE path_merge(Front(merged), path, i + 1)
         ELSE path_merge(Append(merged, path[i]), path, i + 1)

\* Path::to_canonical: a canonical path is returned as it is; a relative path is
\* merged with the current path, a leading self standing for the current path
path_to_canonical(path, current_path) ==
    IF is_canonical(path) THEN <<"Ok", path>>
    ELSE IF Len(path) > 0 /\ path[1] = SELF
         THEN path_merge(current_path, path, 2)
         ELSE path_merge(current_path, path, 1)

\* a plausible slip: the path is merged with the current path even when canonical
to_canonical_always_merge(st, hd, path) ==
    path_merge(to_path(st, hd), path, 1)

\* SymbolTableScopeStack::to_canonical
to_canonical(st, hd, path) ==
    path_to_canonical(path, to_path(st, hd))

\* a Module node: its name, its submodules and the table of its annotation
ModuleNode(name, modules, sym) == [name |-> name, modules |-> modules, sym |-> sym]

\* the project being compiled, SymbolTableScopeStack.root: the root module holds
\* the functions f and h, the coroutine co, the struct S, the extern ext and the
\* module m; m holds g and S
ProjectRoot ==
    ModuleNode("main",
        << ModuleNode("m", <<>>,
               SymbolTable(Module("m"),
                   << Symbol("g", FunctionDef(<<I64>>, I64), FALSE, FALSE),
                      Symbol("S", StructDef(<< <<"a", I64>> >>), FALSE, FALSE) >>)) >>,
        SymbolTable(Module("main"),
            << Symbol("f", FunctionDef(<<>>, I64), FALSE, FALSE),
               Symbol("h", FunctionDef(<<I64, Bool>>, Bool), FALSE, FALSE),
               Symbol("co", CoroutineDef(<<I64>>, Unit), FALSE, FALSE),
               Symbol("S", StructDef(<< <<"a", Bool>> >>), FALSE, FALSE),
               Symbol("P", StructDef(<< <<"a", I64>>, <<"b", Bool>> >>), FALSE, FALSE),
               Symbol("ext", ExternDecl(<<I64>>, TRUE, Unit), FALSE, TRUE) >>))

\* SymbolTableScopeStack.imported_symbols, keyed by canonical path: what
\* import_function and import_structdef have inserted
ImportedSymbols ==
    << << <<CANONICAL_ROOT, "std", "write">>,
          Symbol("write", FunctionDef(<<I64>>, Unit), FALSE, FALSE) >>,
       << <<CANONICAL_ROOT, "m", "g">>,
          Symbol("g", FunctionDef(<<I64>>, I64), FALSE, FALSE) >>,
       << <<CANONICAL_ROOT, "std", "T">>,
          Symbol("T", StructDef(<< <<"a", I64>> >>), FALSE, FALSE) >> >>

\* get_imported_symbol
get_imported_symbol(canonical_name) ==
    LET hits == {i \in 1..Len(ImportedSymbols) : ImportedSymbols[i][1] = canonical_name}
    IN  IF hits = {} THEN None ELSE Some(ImportedSymbols[CHOOSE i \in hits : TRUE][2])

\* Module::get_module: the first submodule of that name
get_module(m, name) ==
    LET hits == {i \in 1..Len(m.modules) : m.modules[i].name = name}
    IN  IF hits = {} THEN None
        ELSE Some(m.modules[CHOOSE i \in hits : \A j \in hits : i <= j])

RECURSIVE get_item_walk(_, _, _)
\* the loop of get_item: follow the segments after the root sentinel, up to but
\* not including the item, through the submodules; then look the item up
get_item_walk(current, canon_path, idx) ==
    IF idx > Len(canon_path) - 1
    THEN table_get(current.sym, Last(canon_path))
    ELSE LET m == get_module(current, canon_path[idx])
         IN  IF IsSome(m) THEN get_item_walk(m[2], canon_path, idx + 1) ELSE None

\* get_item: the path is canonical here, lookup_symbol_by_path has canonized it
get_item(canon_path) == get_item_walk(ProjectRoot, canon_path, 2)

\* a plausible slip: the project's symbol is taken when the imports hold the path too
lookup_symbol_by_path_project_first(st, hd, path) ==
    IF Len(path) > 1
    THEN LET c == to_canonical(st, hd, path)
         IN  IF c[1] = "Err" THEN c
             ELSE LET project_symbol == get_item(c[2])
                      imported_symbol == get_imported_symbol(c[2])
                      found == IF IsSome(project_symbol) THEN project_symbol
                               ELSE imported_symbol
                  IN  IF IsSome(found) THEN <<"Ok", found[2], c[2]>>
                      ELSE <<"Err", "PathNotFound", path>>
    ELSE <<"Err", "EmptyPath", "">>

\* lookup_symbol_by_path
lookup_symbol_by_path(st, hd, path) ==
    IF Len(path) > 1
    THEN LET c == to_canonical(st, hd, path)
         IN  IF c[1] = "Err" THEN c
             ELSE LET project_symbol == get_item(c[2])
                      imported_symbol == get_imported_symbol(c[2])
                      found == IF IsSome(project_symbol) THEN project_symbol
                               ELSE imported_symbol
                  IN  IF IsSome(project_symbol) /\ IsSome(imported_symbol)
                      THEN <<"Err", "MultipleDefinitions", path>>
                      ELSE IF IsSome(found)
                           THEN IF found[2].is_extern
                                THEN <<"Ok", found[2], <<found[2].name>>>>
                                ELSE <<"Ok", found[2], c[2]>>
                           ELSE <<"Err", "PathNotFound", path>>
    ELSE IF Len(path) = 1
    THEN LET r == get_symbol(st, hd, path[1])
         IN  IF IsSome(r)
             THEN IF r[2][1].is_extern
                  THEN <<"Ok", r[2][1], <<r[2][1].name>>>>
                  ELSE <<"Ok", r[2][1], r[2][2]>>
             ELSE <<"Err", "NotDefined", path[1]>>
    ELSE <<"Err", "EmptyPath", "">>

RECURSIVE canonize_nonlocal_type_ref(_, _)
\* canonize_nonlocal_type_ref: only Custom, Coroutine and Array are rewritten, every
\* other type (the routine signatures too) is returned as it is
canonize_nonlocal_type_ref(parent_path, ty) ==
    IF ty[1] = "Custom"
    THEN LET c == path_to_canonical(ty[2], parent_path)
         IN  IF c[1] = "Err" THEN c ELSE <<"Ok", Custom(c[2])>>
    ELSE IF ty[1] = "Coroutine"
    THEN LET r == canonize_nonlocal_type_ref(parent_path, ty[2])
         IN  IF r[1] = "Err" THEN r ELSE <<"Ok", Coroutine(r[2])>>
    ELSE IF ty[1] = "Array"
    THEN IF ty[3] <= 0 THEN <<"Err", "ArrayLength", ty[3]>>
         ELSE LET r == canonize_nonlocal_type_ref(parent_path, ty[2])
              IN  IF r[1] = "Err" THEN r ELSE <<"Ok", Array(r[2], ty[3])>>
    ELSE <<"Ok", ty>>

RECURSIVE canonize_local_type_ref(_, _, _)
RECURSIVE canonize_local_params(_, _, _, _)
\* params.iter().map(canonize_local_type_ref).collect::<Result<Vec<Type>>>(): the
\* canonized types in order, or the first error
canonize_local_params(st, hd, params, i) ==
    IF i > Len(params) THEN <<"Ok", <<>>>>
    ELSE LET r == canonize_local_type_ref(st, hd, params[i])
         IN  IF r[1] = "Err" THEN r
             ELSE LET rest == canonize_local_params(st, hd, params, i + 1)
                  IN  IF rest[1] = "Err" THEN rest ELSE <<"Ok", <<r[2]>> \o rest[2]>>

\* canonize_local_type_ref
canonize_local_type_ref(st, hd, ty) ==
    IF ty[1] = "Custom"
    THEN LET c == to_canonical(st, hd, ty[2])
         IN  IF c[1] = "Err" THEN c ELSE <<"Ok", Custom(c[2])>>
    ELSE IF ty[1] = "Coroutine"
    THEN LET r == canonize_local_type_ref(st, hd, ty[2])
         IN  IF r[1] = "Err" THEN r ELSE <<"Ok", Coroutine(r[2])>>
    ELSE IF ty[1] \in {"CoroutineDef", "FunctionDef"}
    THEN LET cparams == canonize_local_params(st, hd, ty[2], 1)
         IN  IF cparams[1] = "Err" THEN cparams
             ELSE LET cret_ty == canonize_local_type_ref(st, hd, ty[3])
                  IN  IF cret_ty[1] = "Err" THEN cret_ty
                      ELSE <<"Ok", <<ty[1], cparams[2], cret_ty[2]>>>>
    ELSE IF ty[1] = "Array"
    THEN IF ty[3] <= 0 THEN <<"Err", "ArrayLength", ty[3]>>
         ELSE LET r == canonize_local_type_ref(st, hd, ty[2])
              IN  IF r[1] = "Err" THEN r ELSE <<"Ok", Array(r[2], ty[3])>>
    ELSE <<"Ok", ty>>

(***************************************************************************)
(* The scope stack driven through its public operations                    *)
(***************************************************************************)
\* the tables a caller enters: a block, a routine, a module with one item
EnterTables ==
    { SymbolTable(Local, <<>>),
      SymbolTable(Routine("f"), <<>>),
      SymbolTable(Module("m"), <<Symbol("y", FunctionDef(<<>>, I64), FALSE, FALSE)>>) }

\* the arguments given to add
AddInputs ==
    { <<"x", I32, FALSE, FALSE>>,
      <<"x", Bool, TRUE, FALSE>>,
      <<"y", I32, FALSE, FALSE>> }

Names == {"x", "y"}

\* the resolver is not running
ResolveIdle ==
    /\ rpc = "idle"
    /\ rtodo = <<>>
    /\ rplan = <<>>
    /\ rdepth = 0
    /\ rbound = <<>>
    /\ rlast = None

\* the MIR builder is not running
MirIdle ==
    /\ blocks = <<>>
    /\ ntemps = 0
    /\ mvars = <<>>
    /\ current_bb = None
    /\ mwork = <<>>
    /\ mvals = <<>>
    /\ mpc = "idle"
    /\ mlog = None

\* the traverser is not running
TravIdle ==
    /\ tproc = None
    /\ tpc = "idle"
    /\ tpos = <<0, 0>>
    /\ calls = <<>>

\* resolve_types_with_imports is not running
PipeIdle ==
    /\ parsed = None
    /\ sm_ast = None
    /\ pass = "idle"
    /\ main_fn = <<>>

\* no module is being built
ModuleIdle ==
    /\ ast_module = None
    /\ mret = None

\* no token stream is being read
StreamIdle ==
    /\ tokens = <<>>
    /\ index = 0
    /\ tret = None

NoRet == [op |-> "none", name |-> "", res |-> None, pre |-> None]

StackInit ==
    /\ stack = <<>>
    /\ head = SymbolTable(Local, <<>>)
    /\ ret = NoRet
    /\ left = None
    /\ hist = <<>>
    /\ spanic = FALSE
    /\ ResolveIdle
    /\ MirIdle
    /\ TravIdle
    /\ PipeIdle
    /\ ModuleIdle
    /\ StreamIdle

EnterScope(t) ==
    /\ ~spanic
    /\ Len(stack) < MaxDepth
    /\ LET r == enter_scope(stack, head, t)
       IN  /\ stack' = r.stack
           /\ head' = r.head
    /\ hist' = Append(hist, [stack |-> stack, head |-> head, table |-> t, added |-> <<>>])
    /\ ret' = NoRet
    /\ left' = None
    /\ UNCHANGED <<spanic, resolveVars, mirVars, travVars, pipeVars, moduleVars, streamVars>>

LeaveScope ==
    /\ ~spanic
    /\ Len(stack) > 0
    /\ LET r == leave_scope(stack, head)
       IN  /\ stack' = r.stack
           /\ head' = r.head
           /\ left' = Some([ret |-> r.ret, undone |-> Last(hist)])
    /\ hist' = Front(hist)
    /\ ret' = NoRet
    /\ UNCHANGED <<spanic, resolveVars, mirVars, travVars, pipeVars, moduleVars, streamVars>>

\* leave_scope on an empty stack: the expect() panics
LeaveScopePanic ==
    /\ ~spanic
    /\ Len(stack) = 0
    /\ spanic' = TRUE
    /\ UNCHANGED <<stack, head, ret, left, hist, resolveVars, mirVars, travVars, pipeVars, moduleVars, streamVars>>

Add(a) ==
    /\ ~spanic
    /\ LET r == add(stack, head, a[1], a[2], a[3], a[4])
       IN  /\ head' = r.head
           /\ stack' = r.stack
           /\ ret' = [op |-> "add", name |-> a[1], res |-> <<r.ok, r.err>>,
                      pre |-> [stack |-> stack, head |-> head, arg |-> a]]
           /\ hist' = IF r.ok /\ Len(hist) > 0
                      THEN [hist EXCEPT ![Len(hist)].added =
                                Append(@, Symbol(a[1], a[2], a[3], a[4]))]
                      ELSE hist
    /\ left' = None
    /\ UNCHANGED <<spanic, resolveVars, mirVars, travVars, pipeVars, moduleVars, streamVars>>

Lookup(n) ==
    /\ ~spanic
    /\ ret' = [op |-> "lookup", name |-> n,
               res |-> lookup_symbol_by_path(stack, head, <<n>>), pre |-> None]
    /\ UNCHANGED <<stack, head, left, hist, spanic, resolveVars, mirVars, travVars, pipeVars, moduleVars, streamVars>>

StackNext ==
    \/ \E t \in EnterTables : EnterScope(t)
    \/ LeaveScope
    \/ LeaveScopePanic
    \/ \E a \in AddInputs : Add(a)
    \/ \E n \in Names : Lookup(n)

SpecStack == StackInit /\ [][StackNext]_vars

(***************************************************************************)
(* Properties of the scope stack                                           *)
(***************************************************************************)
\* the tables from the outermost to the head
Tables(st, hd) == Append(st, hd)

\* the indices of the tables that hold name
Holders(st, hd, name) ==
    {i \in 1..(Len(st) + 1) : IsSome(table_get(Tables(st, hd)[i], name))}

MaxOf(S) == CHOOSE m \in S : \A k \in S : k <= m

\* the symbol of the innermost table that holds name
Innermost(st, hd, name) ==
    IF Holders(st, hd, name) = {} THEN None
    ELSE table_get(Tables(st, hd)[MaxOf(Holders(st, hd, name))], name)

\* item symbols, as lookup_var tells them from variables
IsItemType(ty) == ty[1] \in {"FunctionDef", "CoroutineDef", "ExternDecl", "StructDef"}

\* C1: leave_scope returns the table that was head (the entered table with every
\* symbol added while it was head) and restores head and stack to what they were
\* immediately before the matching enter_scope
C1_LeaveUndoesEnter ==
    IsSome(left) =>
        LET u == left[2].undone
        IN  /\ head = u.head
            /\ stack = u.stack
            /\ left[2].ret = SymbolTable(u.table.ty, u.table.sym \o u.added)

\* a nested scope that received a symbol while it was head has been left
C1_Witness ==
    /\ IsSome(left)
    /\ Len(stack) >= 1
    /\ Len(left[2].undone.added) >= 1

\* C2: a single-segment lookup never returns a variable held in a scope further
\* out than a Routine scope that was examined without a match
C2_StopsAtRoutine ==
    (ret.op = "lookup" /\ ret.res[1] = "Ok") =>
        ~ /\ \E r \in 1..(Len(stack) + 1) :
                /\ r > MaxOf(Holders(stack, head, ret.name))
                /\ Tables(stack, head)[r].ty[1] = "Routine"
          /\ ~IsItemType(ret.res[2].ty)

\* C4: a lookup returns the symbol of the innermost scope that binds the name;
\* after the inner scope is left it returns the outer symbol as recorded before
\* the inner scope was entered
C4_Shadowing ==
    ret.op = "lookup" =>
        /\ IF IsSome(Innermost(stack, head, ret.name))
           THEN ret.res[1] = "Ok" /\ ret.res[2] = Innermost(stack, head, ret.name)[2]
           ELSE ret.res[1] = "Err"
        /\ (IsSome(left) /\ IsSome(Innermost(left[2].undone.stack, left[2].undone.head, ret.name)))
               => /\ ret.res[1] = "Ok"
                  /\ ret.res[2] = Innermost(left[2].undone.stack, left[2].undone.head, ret.name)[2]

\* x is looked up right after a scope that bound x with another type was left
C4_Witness ==
    /\ ret.op = "lookup"
    /\ IsSome(left)
    /\ IsSome(table_get(left[2].ret, ret.name))
    /\ ret.res[1] = "Ok"
    /\ table_get(left[2].ret, ret.name)[2].ty # ret.res[2].ty
    /\ IsSome(table_get(left[2].undone.head, ret.name))

\* C5: add fails with AlreadyDeclared exactly when the head table holds the name;
\* otherwise the symbol is appended to the head table, and the enclosing tables
\* are never changed
C5_AddHeadOnly ==
    ret.op = "add" =>
        LET a == ret.pre.arg
            held == IsSome(table_get(ret.pre.head, a[1]))
        IN  /\ stack = ret.pre.stack
            /\ held <=> ret.res = <<FALSE, <<"AlreadyDeclared", a[1]>>>>
            /\ held => head = ret.pre.head
            /\ ~held => /\ ret.res = <<TRUE, None>>
                        /\ head = SymbolTable(ret.pre.head.ty,
                                      Append(ret.pre.head.sym, Symbol(a[1], a[2], a[3], a[4])))

\* a name held by an enclosing table only has been added to the head
C5_Witness ==
    /\ ret.op = "add"
    /\ ret.res[1] = TRUE
    /\ \E i \in 1..Len(stack) : IsSome(table_get(stack[i], ret.name))

(***************************************************************************)
(* TypeResolver (compiler/semantics/type_resolver.rs): the walk over a     *)
(* module with the routines f and g.  The statements of a routine body     *)
(* are taken one at a time: a bind, an identifier, the start or the end    *)
(* of an expression block.                                                 *)
(***************************************************************************)
Routines == {"f", "g"}

\* the names a routine binds as parameters or by let
VarNames == {"x", "y"}

\* the parameter lists of a routine definition: (name, type) pairs
ParamLists ==
    { <<>>, <<<<"x", I64>>>>, <<<<"y", Bool>>>>,
      <<<<"x", I64>>, <<"y", Bool>>>>, <<<<"x", I64>>, <<"x", Bool>>>> }

\* the binds of a routine body: name, declared type, mutable
BindInputs == { <<"x", I64, FALSE>>, <<"y", Bool, TRUE>> }

\* the identifiers looked up in a routine body
IdentInputs == {"x", "y", "f"}

\* the module's table after add_item_defs_to_table: its two routines
ModuleTable ==
    SymbolTable(Module("m"), << Symbol("f", FunctionDef(<<>>, I64), FALSE, FALSE),
                                Symbol("g", FunctionDef(<<>>, I64), FALSE, FALSE) >>)

\* lookup_var once the symbol has been looked up: items and symbols of unknown
\* type are not variables
lookup_var_found(id, r) ==
    IF r[1] = "Err" THEN r
    ELSE IF IsItemType(r[2].ty) \/ r[2].ty = Unknown
         THEN <<"Err", "NotAVariable", id>>
         ELSE <<"Ok", r[2], r[3]>>

\* lookup_var: a single-segment lookup that accepts variables only
lookup_var(st, hd, id) == lookup_var_found(id, lookup_symbol_by_path(st, hd, <<id>>))

RECURSIVE add_params(_, _, _)
\* the loop of analyze_routine over params: ctx.add_symbol(p.name, p.ty, false, false)
add_params(ctx, params, i) ==
    IF i > Len(params) THEN [ok |-> TRUE, table |-> ctx]
    ELSE LET r == table_add(ctx, params[i][1], params[i][2], FALSE, FALSE)
         IN  IF r.ok THEN add_params(r.table, params, i + 1)
             ELSE [ok |-> FALSE, table |-> ctx]

\* a plausible slip: the parameters are added to the current head (the module's
\* table) and the routine is entered with its bare context table
analyze_routine_enter_into_head(st, hd, name, params) ==
    LET r == add_params(hd, params, 1)
    IN  IF r.ok
        THEN [ok |-> TRUE] @@ enter_scope(st, r.table, SymbolTable(Routine(name), <<>>))
        ELSE [ok |-> FALSE, stack |-> st, head |-> hd]

\* analyze_routine up to the body: the parameters are added to the routine's own
\* context table, which is then entered
analyze_routine_enter(st, hd, name, params) ==
    LET r == add_params(SymbolTable(Routine(name), <<>>), params, 1)
    IN  IF r.ok
        THEN [ok |-> TRUE] @@ enter_scope(st, hd, r.table)
        ELSE [ok |-> FALSE, stack |-> st, head |-> hd]

ResolveInit ==
    /\ stack = <<>>
    /\ head = SymbolTable(Local, <<>>)
    /\ ret = NoRet
    /\ left = None
    /\ hist = <<>>
    /\ spanic = FALSE
    /\ rpc = "start"
    /\ rtodo \in {<<"f", "g">>, <<"g", "f">>}
    /\ rplan \in [Routines -> SUBSET VarNames]
    /\ rdepth = 0
    /\ rbound = [r \in Routines |-> {}]
    /\ rlast = None
    /\ MirIdle
    /\ TravIdle
    /\ PipeIdle
    /\ ModuleIdle
    /\ StreamIdle

\* analyze_module: the module's scope is entered
AnalyzeModuleEnter ==
    /\ rpc = "start"
    /\ LET r == enter_scope(stack, head, ModuleTable)
       IN  stack' = r.stack /\ head' = r.head
    /\ rpc' = "module"
    /\ UNCHANGED <<rtodo, rplan, rdepth, rbound, rlast, ret, left, hist, spanic, mirVars, travVars, pipeVars, moduleVars, streamVars>>

\* analyze_routine: parameters registered, routine scope entered
AnalyzeRoutineEnter(params) ==
    /\ rpc = "module"
    /\ rtodo # <<>>
    /\ \A i \in 1..Len(params) : params[i][1] \in rplan[Head(rtodo)]
    /\ LET r == analyze_routine_enter(stack, head, Head(rtodo), params)
       IN  /\ stack' = r.stack
           /\ head' = r.head
           /\ rpc' = IF r.ok THEN "routine" ELSE "error"
           /\ rbound' = IF r.ok
                        THEN [rbound EXCEPT ![Head(rtodo)] =
                                 {params[i][1] : i \in 1..Len(params)}]
                        ELSE rbound
    /\ rdepth' = 0
    /\ UNCHANGED <<rtodo, rplan, rlast, ret, left, hist, spanic, mirVars, travVars, pipeVars, moduleVars, streamVars>>

\* analyze_bind, after its right-hand side resolved to the declared type
AnalyzeBind(b) ==
    /\ rpc = "routine"
    /\ b[1] \in rplan[Head(rtodo)]
    /\ LET r == add(stack, head, b[1], b[2], b[3], FALSE)
       IN  /\ stack' = r.stack
           /\ head' = r.head
           /\ rpc' = IF r.ok THEN "routine" ELSE "error"
           /\ rbound' = IF r.ok THEN [rbound EXCEPT ![Head(rtodo)] = @ \cup {b[1]}]
                        ELSE rbound
    /\ UNCHANGED <<rtodo, rplan, rdepth, rlast, ret, left, hist, spanic, mirVars, travVars, pipeVars, moduleVars, streamVars>>

\* analyze_expression on Expression::Identifier
AnalyzeIdentifier(id) ==
    /\ rpc = "routine"
    /\ LET r == lookup_var(stack, head, id)
       IN  /\ rlast' = Some([routine |-> Head(rtodo), name |-> id, res |-> r])
           /\ rpc' = IF r[1] = "Ok" THEN "routine" ELSE "error"
    /\ UNCHANGED <<stack, head, rtodo, rplan, rdepth, rbound, ret, left, hist, spanic, mirVars, travVars, pipeVars, moduleVars, streamVars>>

\* analyze_expression on Expression::ExpressionBlock: the block's scope is entered
BlockEnter ==
    /\ rpc = "routine"
    /\ rdepth < MaxBlockDepth
    /\ LET r == enter_scope(stack, head, SymbolTable(Local, <<>>))
       IN  stack' = r.stack /\ head' = r.head
    /\ rdepth' = rdepth + 1
    /\ UNCHANGED <<rpc, rtodo, rplan, rbound, rlast, ret, left, hist, spanic, mirVars, travVars, pipeVars, moduleVars, streamVars>>

\* the end of an expression block: its scope is left
BlockLeave ==
    /\ rpc = "routine"
    /\ rdepth > 0
    /\ LET r == leave_scope(stack, head)
       IN  stack' = r.stack /\ head' = r.head
    /\ rdepth' = rdepth - 1
    /\ UNCHANGED <<rpc, rtodo, rplan, rbound, rlast, ret, left, hist, spanic, mirVars, travVars, pipeVars, moduleVars, streamVars>>

\* the end of analyze_routine: the routine's scope is left
AnalyzeRoutineLeave ==
    /\ rpc = "routine"
    /\ rdepth = 0
    /\ LET r == leave_scope(stack, head)
       IN  stack' = r.stack /\ head' = r.head
    /\ rtodo' = Tail(rtodo)
    /\ rpc' = "module"
    /\ UNCHANGED <<rplan, rdepth, rbound, rlast, ret, left, hist, spanic, mirVars, travVars, pipeVars, moduleVars, streamVars>>

\* the end of analyze_module: the module's scope is left
AnalyzeModuleLeave ==
    /\ rpc = "module"
    /\ rtodo = <<>>
    /\ LET r == leave_scope(stack, head)
       IN  stack' = r.stack /\ head' = r.head
    /\ rpc' = "done"
    /\ UNCHANGED <<rtodo, rplan, rdepth, rbound, rlast, ret, left, hist, spanic, mirVars, travVars, pipeVars, moduleVars, streamVars>>

ResolveNext ==
    \/ AnalyzeModuleEnter
    \/ \E params \in ParamLists : AnalyzeRoutineEnter(params)
    \/ \E b \in BindInputs : AnalyzeBind(b)
    \/ \E id \in IdentInputs : AnalyzeIdentifier(id)
    \/ BlockEnter
    \/ BlockLeave
    \/ AnalyzeRoutineLeave
    \/ AnalyzeModuleLeave

SpecResolve == ResolveInit /\ [][ResolveNext]_vars

\* C3: while a routine is resolved, the lookup of a name that only a sibling
\* routine binds (as a parameter or by let) fails as not defined, in either
\* order of the two routines
C3_RoutineIsolation ==
    IsSome(rlast) =>
        \A other \in Routines \ {rlast[2].routine} :
            (rlast[2].name \in rplan[other] /\ rlast[2].name \notin rplan[rlast[2].routine])
                => rlast[2].res = <<"Err", "NotDefined", rlast[2].name>>

\* g looks up a name that f, resolved before it, has bound and g never binds
C3_Witness ==
    /\ IsSome(rlast)
    /\ rlast[2].routine = "g"
    /\ rtodo = <<"g">>
    /\ rlast[2].name \in rbound["f"]
    /\ rlast[2].name \notin rplan["g"]

(***************************************************************************)
(* The type-resolved syntax tree given to the MIR builder.  Every node     *)
(* carries the type the resolver gave it; spans are left out.              *)
(*   expressions  <<"I64", v>>  <<"Boolean", v>>  <<"Identifier", ty, id>>  *)
(*                <<"BinaryOp", ty, op, l, r>>  <<"UnaryOp", ty, op, r>>     *)
(*                <<"If", ty, cond, if_arm, else_arm or None>>              *)
(*                <<"ExpressionBlock", ty, statements, final or None>>      *)
(*   statements   <<"Bind", id, ty, mutable, rhs>>  <<"Return", v or None>> *)
(*                <<"Expression", e>>                                       *)
(***************************************************************************)
\* the most if-expressions in one routine body
MaxIfs == 2

\* Expression::get_type
get_type(e) ==
    IF e[1] = "I64" THEN "I64"
    ELSE IF e[1] = "Boolean" THEN "Bool"
    ELSE e[2]

\* the literals of a type
Leaf(ty) ==
    IF ty = "I64" THEN {<<"I64", 1>>}
    ELSE IF ty = "Bool" THEN {<<"Boolean", 1>>}
    ELSE {}

RECURSIVE IfExprs(_, _), Exprs(_, _), ArmStmts(_), ArmBlocks(_, _)
\* the well-typed if-expressions of type ty that hold exactly n if-expressions:
\* a Bool condition, arms of one type, no else arm only when the type is Unit
IfExprs(n, ty) ==
    IF n < 1 THEN {}
    ELSE UNION { UNION { { <<"If", ty, c, t, e>> :
                             c \in Exprs(a, "Bool"),
                             t \in ArmBlocks(b, ty),
                             e \in ArmBlocks(n - 1 - a - b, ty)
                                     \cup (IF ty = "Unit" /\ n - 1 - a - b = 0
                                           THEN {None} ELSE {}) } :
                         b \in 0..(n - 1 - a) } :
                 a \in 0..(n - 1) }

\* the expressions of type ty that hold at most n if-expressions
Exprs(n, ty) == Leaf(ty) \cup UNION { IfExprs(k, ty) : k \in 1..n }

\* the statements before the final expression of an arm: none, a return, or
\* a Unit if-expression, holding at most n if-expressions
ArmStmts(n) ==
    { <<>>, << <<"Return", <<"I64", 1>>>> >> }
        \cup { << <<"Expression", e>> >> : e \in UNION { IfExprs(k, "Unit") : k \in 1..n } }

\* the expression blocks of type ty that hold at most n if-expressions
ArmBlocks(n, ty) ==
    UNION { { <<"ExpressionBlock", ty, st, f>> :
                st \in ArmStmts(a),
                f \in (IF ty = "Unit" THEN {None} ELSE Exprs(n - a, ty)) } :
            a \in 0..n }

\* the body of fn test() -> i64 of the builder's test:
\* let x: i64 := 5;  let y: i64 := if (true) {13} else {29};  return 1+2+3+x+y;
TestBody ==
    << <<"Bind", "x", "I64", FALSE, <<"I64", 5>>>>,
       <<"Bind", "y", "I64", FALSE,
         <<"If", "I64", <<"Boolean", 1>>,
           <<"ExpressionBlock", "I64", <<>>, <<"I64", 13>>>>,
           <<"ExpressionBlock", "I64", <<>>, <<"I64", 29>>>>>>>>,
       <<"Return",
         <<"BinaryOp", "I64", "Add",
           <<"BinaryOp", "I64", "Add",
             <<"BinaryOp", "I64", "Add",
               <<"BinaryOp", "I64", "Add", <<"I64", 1>>, <<"I64", 2>>>>,
               <<"I64", 3>>>>,
             <<"Identifier", "I64", "x">>>>,
           <<"Identifier", "I64", "y">>>>>> >>

\* the routine bodies lowered
Bodies ==
    { TestBody } \cup
    { << <<"Bind", "x", "I64", FALSE, e>>,
         <<"Return", <<"BinaryOp", "I64", "Add", <<"I64", 1>>, <<"Identifier", "I64", "x">>>>>> >> :
        e \in Exprs(MaxIfs, "I64") }
    \cup { << <<"Return", e>> >> : e \in Exprs(MaxIfs, "I64") }
    \cup { << <<"Expression", <<"UnaryOp", "Bool", "Not", e>>>> >> : e \in Exprs(MaxIfs, "Bool") }
    \cup { << <<"Expression", e>>, <<"Return", None>> >> :
             e \in UNION { IfExprs(k, "Unit") : k \in 1..MaxIfs } }
    \cup { << <<"Expression", e>> >> :
             e \in UNION { IfExprs(k, "Unit") : k \in 1..MaxIfs } }

(***************************************************************************)
(* MIR: Procedure and BasicBlock (compiler/mir/ir.rs)                      *)
(***************************************************************************)
\* BasicBlock::new: no statements, no terminator
BasicBlock == [stms |-> <<>>, term |-> None]

\* Procedure::new_bb: a new block at the end, its id is the next number
proc_new_bb(bl) == [blocks |-> Append(bl, BasicBlock), id |-> Len(bl)]

\* BasicBlock::add_stm on block id
add_stm(bl, id, stm) == [bl EXCEPT ![id + 1].stms = Append(@, stm)]

\* BasicBlock::set_terminator on block id: the terminator is replaced
set_terminator(bl, id, term) == [bl EXCEPT ![id + 1].term = term]

\* Procedure::add_var: the declaration is appended, its VarId is its position
proc_add_var(vs, name, mutable, ty) ==
    [vars_ |-> Append(vs, [name |-> name, mutable |-> mutable, ty |-> ty]), id |-> Len(vs)]

\* Procedure::find_var: the VarId of the latest declaration of the name
proc_find_var(vs, name) ==
    MaxOf({i \in 1..Len(vs) : vs[i].name = name}) - 1

(***************************************************************************)
(* MirBuilder (compiler/mir/transform.rs)                                  *)
(***************************************************************************)
Constant(c) == <<"Constant", c>>

LValueOp(lv) == <<"LValue", lv>>

Var(id) == <<"Var", id>>

Temp(id) == <<"Temp", id>>

ReturnPointer == <<"ReturnPointer">>

Use(o) == <<"Use", o>>

Assign(lv, rv) == <<"Assign", lv, rv>>

\* store: Assign(lv, rv) is appended to the current block
store(bl, cur, lv, rv) == add_stm(bl, cur[2], Assign(lv, rv))

\* term_return that leaves the block as it was
term_return_skipped(bl, cur) == bl

\* term_return
term_return(bl, cur) == set_terminator(bl, cur[2], <<"Return">>)

\* a plausible slip: the branch targets the block it ends
term_goto_self(bl, cur, target) == set_terminator(bl, cur[2], <<"GoTo", cur[2]>>)

\* term_goto
term_goto(bl, cur, target) == set_terminator(bl, cur[2], <<"GoTo", target>>)

\* term_cond_goto
term_cond_goto(bl, cur, cond, then_bb, else_bb) ==
    set_terminator(bl, cur[2], <<"CondGoTo", cond, then_bb, else_bb>>)

\* temp: Procedure::add_temp gives the next TempId
temp(n) == [ntemps |-> n + 1, id |-> n]

\* if_expr: the false target of the conditional branch, the else block when
\* there is an else arm and the merge block otherwise
if_expr_false_target_merge(else_bb, merge_bb) == merge_bb

if_expr_false_target(else_bb, merge_bb) ==
    IF IsSome(else_bb) THEN else_bb[2] ELSE merge_bb

\* if_expr: a temporary holds the result only when there is an else arm and
\* the then arm is not of type Unit
if_expr_has_result_any_else(has_else, then_ty) == has_else

if_expr_has_result(has_else, then_ty) == has_else /\ then_ty # "Unit"

\* an absent Option<Box<Expression>>
is_none(o) == o[1] = "None"

\* a record of one set_terminator call: the block, the terminator, and
\* whether the block already had one
TermCall(bl, cur, term) == [bb |-> cur[2], term |-> term, had |-> bl[cur[2] + 1].term # None]

(***************************************************************************)
(* FuncTransformer: the recursive descent of transform, statement, bind,   *)
(* ret, expression, if_expr, unary_op and binary_op, one step per call and *)
(* per return.  mwork holds what remains to be done, innermost first, and  *)
(* mvals the operands returned by the expressions lowered so far.          *)
(***************************************************************************)
MirInit ==
    /\ \E body \in Bodies : mwork = [i \in 1..Len(body) |-> <<"statement", body[i]>>]
    /\ blocks = <<>>
    /\ ntemps = 0
    /\ mvars = <<>>
    /\ current_bb = None
    /\ mvals = <<>>
    /\ mpc = "init"
    /\ mlog = [ifs |-> <<>>, rets |-> <<>>, terms |-> <<>>, temp_stores |-> 0]
    /\ stack = <<>>
    /\ head = SymbolTable(Local, <<>>)
    /\ ret = NoRet
    /\ left = <<>>
    /\ hist = <<>>
    /\ spanic = FALSE
    /\ ResolveIdle
    /\ TravIdle
    /\ PipeIdle
    /\ ModuleIdle
    /\ StreamIdle

Task == Head(mwork)

Running(kind) == mpc = "run" /\ mwork # <<>> /\ Task[1] = kind

\* transform, up to the walk over the body: the entry block is made and selected
Transform ==
    /\ mpc = "init"
    /\ LET b == proc_new_bb(blocks)
       IN /\ blocks' = b.blocks
          /\ current_bb' = Some(b.id)
    /\ mpc' = "run"
    /\ UNCHANGED <<ntemps, mvars, mwork, mvals, mlog, stackVars, resolveVars, travVars, pipeVars, moduleVars, streamVars>>

\* transform, after the walk over the body: the final term_return
TransformFinish ==
    /\ mpc = "run"
    /\ mwork = <<>>
    /\ blocks' = term_return(blocks, current_bb)
    /\ mlog' = [mlog EXCEPT !.terms = Append(@, TermCall(blocks, current_bb, <<"Return">>))]
    /\ mpc' = "done"
    /\ UNCHANGED <<ntemps, mvars, current_bb, mwork, mvals, stackVars, resolveVars, travVars, pipeVars, moduleVars, streamVars>>

\* statement, Statement::Bind: bind declares the variable, then lowers the
\* right-hand side
StatementBind ==
    /\ Running("statement")
    /\ Task[2][1] = "Bind"
    /\ LET bind == Task[2]
           v == proc_add_var(mvars, bind[2], bind[4], bind[3])
       IN /\ mvars' = v.vars_
          /\ mwork' = << <<"expression", bind[5]>>, <<"bind_store", v.id>> >> \o Tail(mwork)
    /\ UNCHANGED <<blocks, ntemps, current_bb, mvals, mpc, mlog, stackVars, resolveVars, travVars, pipeVars, moduleVars, streamVars>>

\* bind, after the right-hand side: store into the variable
BindStore ==
    /\ Running("bind_store")
    /\ blocks' = store(blocks, current_bb, Var(Task[2]), Use(Last(mvals)))
    /\ mvals' = Front(mvals)
    /\ mwork' = Tail(mwork)
    /\ UNCHANGED <<ntemps, mvars, current_bb, mpc, mlog, stackVars, resolveVars, travVars, pipeVars, moduleVars, streamVars>>

\* statement, Statement::Expression: the operand is dropped
StatementExpression ==
    /\ Running("statement")
    /\ Task[2][1] = "Expression"
    /\ mwork' = << <<"expression", Task[2][2]>>, <<"discard">> >> \o Tail(mwork)
    /\ UNCHANGED <<blocks, ntemps, mvars, current_bb, mvals, mpc, mlog, stackVars, resolveVars, travVars, pipeVars, moduleVars, streamVars>>

Discard ==
    /\ Running("discard")
    /\ mvals' = Front(mvals)
    /\ mwork' = Tail(mwork)
    /\ UNCHANGED <<blocks, ntemps, mvars, current_bb, mpc, mlog, stackVars, resolveVars, travVars, pipeVars, moduleVars, streamVars>>

\* ret with a value: the value is lowered first
StatementReturnValue ==
    /\ Running("statement")
    /\ Task[2][1] = "Return"
    /\ ~is_none(Task[2][2])
    /\ mwork' = << <<"expression", Task[2][2]>>, <<"ret_store">> >> \o Tail(mwork)
    /\ UNCHANGED <<blocks, ntemps, mvars, current_bb, mvals, mpc, mlog, stackVars, resolveVars, travVars, pipeVars, moduleVars, streamVars>>

\* ret, after the value: store into the return pointer, then term_return
RetStore ==
    /\ Running("ret_store")
    /\ LET v == Last(mvals)
           stored == store(blocks, current_bb, ReturnPointer, Use(v))
       IN /\ blocks' = term_return(stored, current_bb)
          /\ mlog' = [mlog EXCEPT
                        !.rets = Append(@, [bb |-> current_bb[2], has_val |-> TRUE, val |-> v,
                                            at |-> Len(stored[current_bb[2] + 1].stms)]),
                        !.terms = Append(@, TermCall(blocks, current_bb, <<"Return">>))]
    /\ mvals' = Front(mvals)
    /\ mwork' = Tail(mwork)
    /\ UNCHANGED <<ntemps, mvars, current_bb, mpc, stackVars, resolveVars, travVars, pipeVars, moduleVars, streamVars>>

\* ret without a value: term_return alone
StatementReturnNone ==
    /\ Running("statement")
    /\ Task[2][1] = "Return"
    /\ is_none(Task[2][2])
    /\ blocks' = term_return(blocks, current_bb)
    /\ mlog' = [mlog EXCEPT
                  !.rets = Append(@, [bb |-> current_bb[2], has_val |-> FALSE, val |-> None,
                                      at |-> Len(blocks[current_bb[2] + 1].stms)]),
                  !.terms = Append(@, TermCall(blocks, current_bb, <<"Return">>))]
    /\ mwork' = Tail(mwork)
    /\ UNCHANGED <<ntemps, mvars, current_bb, mvals, mpc, stackVars, resolveVars, travVars, pipeVars, moduleVars, streamVars>>

\* expression, the literals: a constant operand
ExpressionLiteral ==
    /\ Running("expression")
    /\ Task[2][1] \in {"I64", "Boolean"}
    /\ mvals' = Append(mvals, Constant(<<(IF Task[2][1] = "I64" THEN "I64" ELSE "Bool"), Task[2][2]>>))
    /\ mwork' = Tail(mwork)
    /\ UNCHANGED <<blocks, ntemps, mvars, current_bb, mpc, mlog, stackVars, resolveVars, travVars, pipeVars, moduleVars, streamVars>>

\* expression, Expression::Identifier: the variable found by name
ExpressionIdentifier ==
    /\ Running("expression")
    /\ Task[2][1] = "Identifier"
    /\ mvals' = Append(mvals, LValueOp(Var(proc_find_var(mvars, Task[2][3]))))
    /\ mwork' = Tail(mwork)
    /\ UNCHANGED <<blocks, ntemps, mvars, current_bb, mpc, mlog, stackVars, resolveVars, travVars, pipeVars, moduleVars, streamVars>>

\* expression, Expression::BinaryOp: binary_op lowers left, then right
ExpressionBinaryOp ==
    /\ Running("expression")
    /\ Task[2][1] = "BinaryOp"
    /\ mwork' = << <<"expression", Task[2][4]>>, <<"expression", Task[2][5]>>,
                   <<"binary_op", Task[2][3]>> >> \o Tail(mwork)
    /\ UNCHANGED <<blocks, ntemps, mvars, current_bb, mvals, mpc, mlog, stackVars, resolveVars, travVars, pipeVars, moduleVars, streamVars>>

\* expression, Expression::BinaryOp, after the operands: temp_store of the BinOp
BinaryOpStore ==
    /\ Running("binary_op")
    /\ LET r == Last(mvals)
           l == Last(Front(mvals))
           t == temp(ntemps)
       IN /\ ntemps' = t.ntemps
          /\ blocks' = store(blocks, current_bb, Temp(t.id), <<"BinOp", Task[2], l, r>>)
          /\ mvals' = Append(Front(Front(mvals)), LValueOp(Temp(t.id)))
    /\ mlog' = [mlog EXCEPT !.temp_stores = @ + 1]
    /\ mwork' = Tail(mwork)
    /\ UNCHANGED <<mvars, current_bb, mpc, stackVars, resolveVars, travVars, pipeVars, moduleVars, streamVars>>

\* expression, Expression::UnaryOp: unary_op lowers the operand
ExpressionUnaryOp ==
    /\ Running("expression")
    /\ Task[2][1] = "UnaryOp"
    /\ mwork' = << <<"expression", Task[2][4]>>, <<"unary_op", Task[2][3]>> >> \o Tail(mwork)
    /\ UNCHANGED <<blocks, ntemps, mvars, current_bb, mvals, mpc, mlog, stackVars, resolveVars, travVars, pipeVars, moduleVars, streamVars>>

\* expression, Expression::UnaryOp, after the operand: temp_store of the UnOp
UnaryOpStore ==
    /\ Running("unary_op")
    /\ LET r == Last(mvals)
           t == temp(ntemps)
       IN /\ ntemps' = t.ntemps
          /\ blocks' = store(blocks, current_bb, Temp(t.id), <<"UnOp", Task[2], r>>)
          /\ mvals' = Append(Front(mvals), LValueOp(Temp(t.id)))
    /\ mlog' = [mlog EXCEPT !.temp_stores = @ + 1]
    /\ mwork' = Tail(mwork)
    /\ UNCHANGED <<mvars, current_bb, mpc, stackVars, resolveVars, travVars, pipeVars, moduleVars, streamVars>>

\* expression, Expression::ExpressionBlock: the statements, then the final
\* expression or the Unit constant
ExpressionBlock ==
    /\ Running("expression")
    /\ Task[2][1] = "ExpressionBlock"
    /\ LET block == Task[2][3]
           expr == Task[2][4]
       IN mwork' = [i \in 1..Len(block) |-> <<"statement", block[i]>>]
                     \o << (IF is_none(expr) THEN <<"unit">> ELSE <<"expression", expr>>) >>
                     \o Tail(mwork)
    /\ UNCHANGED <<blocks, ntemps, mvars, current_bb, mvals, mpc, mlog, stackVars, resolveVars, travVars, pipeVars, moduleVars, streamVars>>

ExpressionBlockUnit ==
    /\ Running("unit")
    /\ mvals' = Append(mvals, Constant(<<"Unit">>))
    /\ mwork' = Tail(mwork)
    /\ UNCHANGED <<blocks, ntemps, mvars, current_bb, mpc, mlog, stackVars, resolveVars, travVars, pipeVars, moduleVars, streamVars>>

\* if_expr, up to the condition: the then, else and merge blocks are made
IfExpr ==
    /\ Running("expression")
    /\ Task[2][1] = "If"
    /\ LET cond == Task[2][3]
           then_block == Task[2][4]
           else_block == Task[2][5]
           t == proc_new_bb(blocks)
           e == IF is_none(else_block) THEN [blocks |-> t.blocks, id |-> None]
                ELSE LET n == proc_new_bb(t.blocks) IN [blocks |-> n.blocks, id |-> Some(n.id)]
           m == proc_new_bb(e.blocks)
           info == [then_bb |-> t.id, else_bb |-> e.id, merge_bb |-> m.id,
                    then_block |-> then_block, else_block |-> else_block,
                    nb0 |-> Len(blocks), nb1 |-> Len(m.blocks)]
       IN /\ blocks' = m.blocks
          /\ mwork' = << <<"expression", cond>>, <<"if_cond", info>> >> \o Tail(mwork)
    /\ UNCHANGED <<ntemps, mvars, current_bb, mvals, mpc, mlog, stackVars, resolveVars, travVars, pipeVars, moduleVars, streamVars>>

\* if_expr, after the condition: term_cond_goto, the result temporary, and
\* the then block selected
IfCond ==
    /\ Running("if_cond")
    /\ LET info == Task[2]
           cond_val == Last(mvals)
           fls == if_expr_false_target(info.else_bb, info.merge_bb)
           has == if_expr_has_result(~is_none(info.else_block), get_type(info.then_block))
           t == temp(ntemps)
           result == IF has THEN Some(t.id) ELSE None
           next == [then_bb |-> info.then_bb, else_bb |-> info.else_bb, merge_bb |-> info.merge_bb,
                    then_block |-> info.then_block, else_block |-> info.else_block,
                    nb0 |-> info.nb0, nb1 |-> info.nb1,
                    cond_bb |-> current_bb[2], cond |-> cond_val, result |-> result,
                    nt0 |-> ntemps, nt1 |-> IF has THEN t.ntemps ELSE ntemps]
       IN /\ blocks' = term_cond_goto(blocks, current_bb, cond_val, info.then_bb, fls)
          /\ mlog' = [mlog EXCEPT !.terms = Append(@,
                         TermCall(blocks, current_bb, <<"CondGoTo", cond_val, info.then_bb, fls>>))]
          /\ ntemps' = next.nt1
          /\ current_bb' = Some(info.then_bb)
          /\ mwork' = << <<"expression", info.then_block>>, <<"if_then", next>> >> \o Tail(mwork)
    /\ mvals' = Front(mvals)
    /\ UNCHANGED <<mvars, mpc, stackVars, resolveVars, travVars, pipeVars, moduleVars, streamVars>>

\* a plausible slip: the arm branches to the merge block without storing its
\* value into the result temporary
close_arm_without_store(bl, cur, result, val, merge_bb) ==
    term_goto(bl, cur, merge_bb)

\* the blocks after an arm is closed: the store of its value when there is a
\* result temporary, then term_goto to the merge block
close_arm(bl, cur, result, val, merge_bb) ==
    term_goto(IF IsSome(result) THEN store(bl, cur, Temp(result[2]), Use(val)) ELSE bl,
              cur, merge_bb)

\* a plausible slip: the Unit constant is returned whether or not there is a
\* result temporary
if_expr_result_unit(result) == Constant(<<"Unit">>)

\* the operand if_expr returns
if_expr_result(result) ==
    IF IsSome(result) THEN LValueOp(Temp(result[2])) ELSE Constant(<<"Unit">>)

\* if_expr, after the then arm without an else arm: the arm is closed, the
\* merge block selected and the operand returned
IfThenNoElse ==
    /\ Running("if_then")
    /\ is_none(Task[2].else_block)
    /\ LET info == Task[2]
           val == Last(mvals)
       IN /\ blocks' = close_arm(blocks, current_bb, info.result, val, info.merge_bb)
          /\ current_bb' = Some(info.merge_bb)
          /\ mvals' = Append(Front(mvals), if_expr_result(info.result))
          /\ mlog' = [mlog EXCEPT
                        !.terms = Append(@, TermCall(blocks, current_bb, <<"GoTo", info.merge_bb>>)),
                        !.ifs = Append(@, [then_bb |-> info.then_bb, else_bb |-> info.else_bb,
                                           merge_bb |-> info.merge_bb, has_else |-> FALSE,
                                           then_ty |-> get_type(info.then_block),
                                           nb0 |-> info.nb0, nb1 |-> info.nb1,
                                           nt0 |-> info.nt0, nt1 |-> info.nt1,
                                           cond_bb |-> info.cond_bb, cond |-> info.cond,
                                           result |-> info.result,
                                           then_end |-> current_bb[2], then_val |-> val,
                                           else_end |-> None, else_val |-> None,
                                           out |-> Last(mvals'),
                                           cur_after |-> current_bb'])]
    /\ mwork' = Tail(mwork)
    /\ UNCHANGED <<ntemps, mvars, mpc, stackVars, resolveVars, travVars, pipeVars, moduleVars, streamVars>>

\* if_expr, after the then arm with an else arm: the arm is closed and the
\* else block selected
IfThen ==
    /\ Running("if_then")
    /\ ~is_none(Task[2].else_block)
    /\ LET info == Task[2]
           val == Last(mvals)
           next == [then_bb |-> info.then_bb, else_bb |-> info.else_bb, merge_bb |-> info.merge_bb,
                    then_block |-> info.then_block, else_block |-> info.else_block,
                    nb0 |-> info.nb0, nb1 |-> info.nb1, nt0 |-> info.nt0, nt1 |-> info.nt1,
                    cond_bb |-> info.cond_bb, cond |-> info.cond, result |-> info.result,
                    then_end |-> current_bb[2], then_val |-> val]
       IN /\ blocks' = close_arm(blocks, current_bb, info.result, val, info.merge_bb)
          /\ current_bb' = info.else_bb
          /\ mlog' = [mlog EXCEPT
                        !.terms = Append(@, TermCall(blocks, current_bb, <<"GoTo", info.merge_bb>>))]
          /\ mwork' = << <<"expression", info.else_block>>, <<"if_else", next>> >> \o Tail(mwork)
    /\ mvals' = Front(mvals)
    /\ UNCHANGED <<ntemps, mvars, mpc, stackVars, resolveVars, travVars, pipeVars, moduleVars, streamVars>>

\* if_expr, after the else arm: the arm is closed, the merge block selected
\* and the operand returned
IfElse ==
    /\ Running("if_else")
    /\ LET info == Task[2]
           val == Last(mvals)
       IN /\ blocks' = close_arm(blocks, current_bb, info.result, val, info.merge_bb)
          /\ current_bb' = Some(info.merge_bb)
          /\ mvals' = Append(Front(mvals), if_expr_result(info.result))
          /\ mlog' = [mlog EXCEPT
                        !.terms = Append(@, TermCall(blocks, current_bb, <<"GoTo", info.merge_bb>>)),
                        !.ifs = Append(@, [then_bb |-> info.then_bb, else_bb |-> info.else_bb,
                                           merge_bb |-> info.merge_bb, has_else |-> TRUE,
                                           then_ty |-> get_type(info.then_block),
                                           nb0 |-> info.nb0, nb1 |-> info.nb1,
                                           nt0 |-> info.nt0, nt1 |-> info.nt1,
                                           cond_bb |-> info.cond_bb, cond |-> info.cond,
                                           result |-> info.result,
                                           then_end |-> info.then_end, then_val |-> info.then_val,
                                           else_end |-> Some(current_bb[2]), else_val |-> val,
                                           out |-> Last(mvals'),
                                           cur_after |-> current_bb'])]
    /\ mwork' = Tail(mwork)
    /\ UNCHANGED <<ntemps, mvars, mpc, stackVars, resolveVars, travVars, pipeVars, moduleVars, streamVars>>

MirNext ==
    \/ Transform
    \/ TransformFinish
    \/ StatementBind
    \/ BindStore
    \/ StatementExpression
    \/ Discard
    \/ StatementReturnValue
    \/ RetStore
    \/ StatementReturnNone
    \/ ExpressionLiteral
    \/ ExpressionIdentifier
    \/ ExpressionBinaryOp
    \/ BinaryOpStore
    \/ ExpressionUnaryOp
    \/ UnaryOpStore
    \/ ExpressionBlock
    \/ ExpressionBlockUnit
    \/ IfExpr
    \/ IfCond
    \/ IfThenNoElse
    \/ IfThen
    \/ IfElse

SpecMir == MirInit /\ [][MirNext]_vars

(***************************************************************************)
(* Properties of the MIR builder                                           *)
(***************************************************************************)
\* the if-expressions whose lowering has returned
Ifs == { mlog.ifs[i] : i \in 1..Len(mlog.ifs) }

\* the block with the given BasicBlockId
Block(id) == blocks[id + 1]

\* C6: when the builder finishes lowering a routine, every basic block of
\* the Procedure has a terminator
C6_EveryBlockTerminated ==
    mpc = "done" => \A i \in 1..Len(blocks) : blocks[i].term[1] # "None"

\* a finished Procedure with an if-expression lowered inside the condition of
\* another one
C6_Witness ==
    /\ mpc = "done"
    /\ \E f, g \in Ifs : f.nb0 < g.nb0 /\ f.cond_bb = g.merge_bb
    /\ \A i \in 1..Len(blocks) : blocks[i].term[1] # "None"

\* C7: an if-expression allocates a then block, an else block only when
\* there is an else arm, and a merge block; the block where the condition was
\* lowered ends with CondGoTo(cond, then, else) with an else arm and
\* CondGoTo(cond, then, merge) without; each arm ends with GoTo(merge); merge
\* is the current block when the lowering returns
C7_IfExprShape ==
    \A f \in Ifs :
        /\ f.then_bb = f.nb0
        /\ IF f.has_else
           THEN /\ f.else_bb = Some(f.nb0 + 1)
                /\ f.merge_bb = f.nb0 + 2
                /\ f.nb1 = f.nb0 + 3
                /\ Block(f.cond_bb).term = <<"CondGoTo", f.cond, f.then_bb, f.nb0 + 1>>
                /\ Block(f.else_end[2]).term = <<"GoTo", f.merge_bb>>
           ELSE /\ f.else_bb = None
                /\ f.merge_bb = f.nb0 + 1
                /\ f.nb1 = f.nb0 + 2
                /\ Block(f.cond_bb).term = <<"CondGoTo", f.cond, f.then_bb, f.merge_bb>>
        /\ Block(f.then_end).term = <<"GoTo", f.merge_bb>>
        /\ f.cur_after = Some(f.merge_bb)

\* an if-expression with an else arm and one without have both been lowered
C7_Witness ==
    /\ \E f \in Ifs : f.has_else /\ Block(f.cond_bb).term[1] = "CondGoTo"
    /\ \E f \in Ifs : ~f.has_else /\ Block(f.then_end).term[1] = "GoTo"

\* C8: an if-expression has a result temporary exactly when there is an else
\* arm and the then arm is not Unit; then one temporary is allocated for it,
\* both arms store their value into it before branching to merge, and it is
\* the result operand; otherwise no temporary is allocated and the result
\* operand is the Unit constant
C8_ResultTemp ==
    /\ \A f \in Ifs :
        /\ IsSome(f.result) <=> (f.has_else /\ f.then_ty # "Unit")
        /\ IsSome(f.result) =>
            /\ f.nt1 = f.nt0 + 1
            /\ f.result[2] = f.nt0
            /\ Len(Block(f.then_end).stms) > 0
            /\ Last(Block(f.then_end).stms) = Assign(Temp(f.result[2]), Use(f.then_val))
            /\ Len(Block(f.else_end[2]).stms) > 0
            /\ Last(Block(f.else_end[2]).stms) = Assign(Temp(f.result[2]), Use(f.else_val))
            /\ f.out = LValueOp(Temp(f.result[2]))
        /\ ~IsSome(f.result) =>
            /\ f.nt1 = f.nt0
            /\ f.out = Constant(<<"Unit">>)
    /\ mpc = "done" =>
        ntemps = mlog.temp_stores + Cardinality({i \in 1..Len(mlog.ifs) : IsSome(mlog.ifs[i].result)})

\* a finished Procedure with an if-expression that has a result temporary
\* and a Unit if-expression with an else arm that has none
C8_Witness ==
    /\ mpc = "done"
    /\ \E f \in Ifs : IsSome(f.result) /\ f.out = LValueOp(Temp(f.result[2]))
    /\ \E f \in Ifs : f.has_else /\ ~IsSome(f.result) /\ f.out = Constant(<<"Unit">>)

\* C9: a Return statement appends Assign(ReturnPointer, Use(v)) to the
\* current block when it has a value, and that block is Return-terminated in
\* the finished Procedure wherever the statement occurs, inside an arm of an
\* if-expression included
C9_ReturnTerminated ==
    mpc = "done" =>
        \A i \in 1..Len(mlog.rets) :
            LET r == mlog.rets[i]
            IN /\ r.has_val => Block(r.bb).stms[r.at] = Assign(ReturnPointer, Use(r.val))
               /\ Block(r.bb).term = <<"Return">>

(***************************************************************************)
(* Traverser (compiler/mir/ops/traverser.rs).  The Transformer is the      *)
(* caller's object; here it records the calls made on it, in order.        *)
(***************************************************************************)
\* the most basic blocks in a Procedure given to the Traverser
MaxBlocks == 2

\* the most functions in a MirProject given to the Traverser
MaxFns == 2

\* ir.rs: the id of the entry block
ENTRY_BB == 0

\* the basic blocks the Procedures are made of
TravBlocks ==
    { [stms |-> <<>>, term |-> <<"Return">>],
      [stms |-> << Assign(Var(0), Use(Constant(<<"I64", 1>>))) >>, term |-> <<"GoTo", 0>>],
      [stms |-> << Assign(Var(1), Use(Constant(<<"Bool", 1>>))),
                   Assign(Var(0), Use(LValueOp(Var(1)))) >>,
       term |-> <<"CondGoTo", LValueOp(Var(1)), 0, 0>>],
      [stms |-> << Assign(Temp(0), Use(Constant(<<"I64", 1>>))) >>, term |-> <<"Return">>],
      [stms |-> << Assign(Var(0), <<"BinOp", "Add", Constant(<<"I64", 1>>), Constant(<<"I64", 1>>)>>) >>,
       term |-> <<"Return">>],
      [stms |-> << Assign(Var(0), Use(Constant(<<"Unit">>))) >>, term |-> <<"Return">>],
      [stms |-> <<>>, term |-> None] }

\* the user variable declarations of the Procedures
TravVars ==
    { <<>>,
      << [name |-> "x", mutable |-> FALSE, ty |-> "I64"] >>,
      << [name |-> "x", mutable |-> FALSE, ty |-> "I64"],
         [name |-> "b", mutable |-> TRUE, ty |-> "Bool"] >> }

\* the Procedures: one to MaxBlocks blocks
TravProcs ==
    UNION { { [blocks |-> b, vars_ |-> v] : b \in [1..n -> TravBlocks], v \in TravVars } :
            n \in 1..MaxBlocks }

\* the calls made so far and whether the traversal is still running (ok) or
\* has panicked
Made(cs) == [calls |-> cs, ok |-> TRUE]

Panicked(cs) == [calls |-> cs, ok |-> FALSE]

\* b after a, unless a panicked
AndThen(a, b) == IF a.ok THEN [calls |-> a.calls \o b.calls, ok |-> b.ok] ELSE a

\* lvalue
lvalue(lv) ==
    IF lv[1] = "Var" THEN Made(<< <<"var", lv[2]>> >>)
    ELSE Panicked(<<>>)

\* constant
constant(c) ==
    IF c[1] = "I64" THEN Made(<< <<"const_i64", c[2]>> >>)
    ELSE IF c[1] = "Bool" THEN Made(<< <<"const_bool", c[2]>> >>)
    ELSE Panicked(<<>>)

\* operand
operand(o) ==
    IF o[1] = "Constant" THEN constant(o[2])
    ELSE AndThen(lvalue(o[2]), Made(<< <<"load">> >>))

\* rvalue
rvalue(rv) ==
    IF rv[1] = "Use" THEN operand(rv[2])
    ELSE Panicked(<<>>)

\* statement
statement(stm) ==
    AndThen(lvalue(stm[2]), AndThen(rvalue(stm[3]), Made(<< <<"assign">> >>)))

\* bb.stm_iter().for_each(|s| self.statement(s)), from statement i on
RECURSIVE statements(_, _)
statements(stms, i) ==
    IF i > Len(stms) THEN Made(<<>>)
    ELSE AndThen(statement(stms[i]), statements(stms, i + 1))

\* basic_block, the terminator
terminator(term) ==
    IF term[1] = "None" THEN Panicked(<<>>)
    ELSE IF term[1] = "Return" THEN Made(<< <<"term_return">> >>)
    ELSE IF term[1] = "GoTo" THEN Made(<< <<"term_goto", term[2]>> >>)
    ELSE IF term[1] = "CondGoTo"
         THEN AndThen(operand(term[2]), Made(<< <<"term_cond_goto", term[3], term[4]>> >>))
    ELSE Panicked(<<>>)

\* basic_block with the terminator emitted before the statements
basic_block_term_first(id, bb) ==
    AndThen(Made(<< <<"set_bb", id>> >>),
            AndThen(terminator(bb.term), statements(bb.stms, 1)))

\* basic_block
basic_block(id, bb) ==
    AndThen(Made(<< <<"set_bb", id>> >>),
            AndThen(statements(bb.stms, 1), terminator(bb.term)))

\* map, the first loop: create_bb for every block of the function
create_bbs(f) == [i \in 1..Len(f.blocks) |-> <<"create_bb", i - 1>>]

\* allocate_local_vars
allocate_local_vars(f) ==
    << <<"set_bb", ENTRY_BB>> >> \o [i \in 1..Len(f.vars_) |-> <<"alloc_var", i - 1>>]

TravInit ==
    /\ tproc = None
    /\ tpc = "map"
    /\ tpos = <<0, 0>>
    /\ calls = <<>>
    /\ stack = <<>>
    /\ head = SymbolTable(Local, <<>>)
    /\ ret = NoRet
    /\ left = <<>>
    /\ hist = <<>>
    /\ spanic = FALSE
    /\ ResolveIdle
    /\ MirIdle
    /\ PipeIdle
    /\ ModuleIdle
    /\ StreamIdle

\* map: the next function of the project; its blocks are created
Map(f) ==
    /\ tpc = "map"
    /\ tpos[1] < MaxFns
    /\ tproc' = f
    /\ calls' = create_bbs(f)
    /\ tpos' = <<tpos[1] + 1, 0>>
    /\ tpc' = "alloc"
    /\ UNCHANGED <<stackVars, resolveVars, mirVars, pipeVars, moduleVars, streamVars>>

\* map: self.allocate_local_vars()
AllocateLocalVars ==
    /\ tpc = "alloc"
    /\ calls' = calls \o allocate_local_vars(tproc)
    /\ tpc' = "block"
    /\ UNCHANGED <<tproc, tpos, stackVars, resolveVars, mirVars, pipeVars, moduleVars, streamVars>>

\* map, the second loop: basic_block for the next block
BasicBlockStep ==
    /\ tpc = "block"
    /\ tpos[2] < Len(tproc.blocks)
    /\ LET r == basic_block(tpos[2], tproc.blocks[tpos[2] + 1])
       IN /\ r.ok
          /\ calls' = calls \o r.calls
    /\ tpos' = <<tpos[1], tpos[2] + 1>>
    /\ UNCHANGED <<tproc, tpc, stackVars, resolveVars, mirVars, pipeVars, moduleVars, streamVars>>

\* basic_block for the next block reaches a todo!() or a block without a
\* terminator: the traversal panics after the calls made up to there
BasicBlockPanic ==
    /\ tpc = "block"
    /\ tpos[2] < Len(tproc.blocks)
    /\ LET r == basic_block(tpos[2], tproc.blocks[tpos[2] + 1])
       IN /\ ~r.ok
          /\ calls' = calls \o r.calls
    /\ tpc' = "panic"
    /\ UNCHANGED <<tproc, tpos, stackVars, resolveVars, mirVars, pipeVars, moduleVars, streamVars>>

\* map: every block of the function is done, on to the next function
FunctionDone ==
    /\ tpc = "block"
    /\ tpos[2] = Len(tproc.blocks)
    /\ tpc' = "map"
    /\ UNCHANGED <<tproc, tpos, calls, stackVars, resolveVars, mirVars, pipeVars, moduleVars, streamVars>>

\* map returns: no function is left
MapDone ==
    /\ tpc = "map"
    /\ tpos[1] > 0
    /\ tpc' = "done"
    /\ UNCHANGED <<tproc, tpos, calls, stackVars, resolveVars, mirVars, pipeVars, moduleVars, streamVars>>

TravNext ==
    \/ \E f \in TravProcs : Map(f)
    \/ AllocateLocalVars
    \/ BasicBlockStep
    \/ BasicBlockPanic
    \/ FunctionDone
    \/ MapDone

SpecTrav == TravInit /\ [][TravNext]_vars

(***************************************************************************)
(* Properties of the Traverser                                             *)
(***************************************************************************)
\* the k-th smallest member of a set of numbers
Nth(S, k) == CHOOSE x \in S : Cardinality({y \in S : y < x}) = k - 1

IsTermCall(c) == c[1] \in {"term_return", "term_goto", "term_cond_goto"}

\* the positions in calls where a block is selected for replay
Selects ==
    {i \in (Len(tproc.blocks) + 2)..Len(calls) : calls[i][1] = "set_bb"}

\* the replay of the k-th selected block, calls s to e of the log: the block
\* is selected first, its statements are replayed in stored order, and its
\* terminator is emitted last and once (complete: the replay has returned)
ReplayInOrder(k, s, e, complete) ==
    LET bb == tproc.blocks[k]
        A == {i \in s..e : calls[i][1] = "assign"}
        T == {i \in s..e : IsTermCall(calls[i])}
    IN /\ calls[s] = <<"set_bb", k - 1>>
       /\ Cardinality(T) <= 1
       /\ T # {} => T = {e}
       /\ Cardinality(A) <= Len(bb.stms)
       /\ \A j \in 1..Cardinality(A) :
            calls[IF j = 1 THEN s + 1 ELSE Nth(A, j - 1) + 1] = <<"var", bb.stms[j][2][2]>>
       /\ T # {} => Cardinality(A) = Len(bb.stms)
       /\ complete =>
            /\ T = {e}
            /\ bb.term[1] = "Return" => calls[e] = <<"term_return">>
            /\ bb.term[1] = "GoTo" => calls[e] = <<"term_goto", bb.term[2]>>
            /\ bb.term[1] = "CondGoTo" => calls[e] = <<"term_cond_goto", bb.term[3], bb.term[4]>>

\* C10: for each function the Traverser creates every basic-block id before
\* anything else, then allocates every user variable with the entry block
\* selected, and only then replays the blocks; within a block it selects the
\* block, replays the statements in stored order and emits the terminator
\* last and exactly once
C10_TraverserOrder ==
    tpos[1] > 0 =>
        LET n == Len(tproc.blocks)
            nv == Len(tproc.vars_)
            nsel == Cardinality(Selects)
        IN /\ Len(calls) >= n
           /\ \A i \in 1..Len(calls) : (calls[i][1] = "create_bb") <=> (i <= n)
           /\ \A i \in 1..n : calls[i] = <<"create_bb", i - 1>>
           /\ \A i \in 1..Len(calls) :
                (calls[i][1] = "alloc_var") <=> (i \in (n + 2)..(n + 1 + nv))
           /\ Len(calls) > n =>
                /\ Len(calls) >= n + 1 + nv
                /\ calls[n + 1] = <<"set_bb", ENTRY_BB>>
                /\ \A i \in 1..nv : calls[n + 1 + i] = <<"alloc_var", i - 1>>
           /\ Len(calls) > n + 1 + nv => (n + nv + 2) \in Selects
           /\ nsel <= n
           /\ \A k \in 1..nsel :
                ReplayInOrder(k, Nth(Selects, k),
                              IF k < nsel THEN Nth(Selects, k + 1) - 1 ELSE Len(calls),
                              k < nsel \/ tpc \in {"map", "done"} \/ (tpc = "block" /\ tpos[2] >= k))
           /\ tpc \in {"map", "done"} => nsel = n

\* the second function of a project has been traversed to its end: two
\* variables, a first block with two statements and a second block
C10_Witness ==
    /\ tpc = "done"
    /\ tpos[1] = 2
    /\ Len(tproc.blocks) = 2
    /\ Len(tproc.vars_) = 2
    /\ Len(tproc.blocks[1].stms) = 2
    /\ Cardinality({i \in 1..Len(calls) : calls[i][1] = "assign"}) >= 2
    /\ IsTermCall(Last(calls))

(***************************************************************************)
(* Paths and type references resolved against the scope stack              *)
(***************************************************************************)
\* the largest number of tables held on the stack while paths are resolved
MaxPathDepth == 3

\* the tables entered: a block, a routine, the module m of the project, a module n
PathTables ==
    { SymbolTable(Local, <<>>),
      SymbolTable(Routine("f"), <<>>),
      ProjectRoot.modules[1].sym,
      SymbolTable(Module("n"), <<>>) }

\* the paths looked up and canonized
PathInputs ==
    { <<"self", "g">>, <<"self", "S">>, <<"super", "f">>, <<"super", "super", "f">>,
      <<"m", "g">>, <<"std", "write">>,
      <<CANONICAL_ROOT, "f">>, <<CANONICAL_ROOT, "ext">>, <<CANONICAL_ROOT, "m", "g">>,
      <<CANONICAL_ROOT, "m", "S">>, <<CANONICAL_ROOT, "std", "write">>,
      <<CANONICAL_ROOT, "m", "zz">>, <<CANONICAL_ROOT, "q", "g">> }

\* the type references canonized
TypeInputs ==
    { I64,
      Custom(<<"self", "S">>),
      Custom(<<"super", "super", "S">>),
      Custom(<<CANONICAL_ROOT, "m", "S">>),
      Coroutine(Custom(<<"S">>)),
      Array(Custom(<<"self", "S">>), 2),
      Array(I64, 0),
      FunctionDef(<<I64, Custom(<<"S">>)>>, Custom(<<"self", "S">>)),
      CoroutineDef(<<Custom(<<"super", "super", "S">>)>>, I64),
      FunctionDef(<<Custom(<<CANONICAL_ROOT, "S">>)>>, Unit) }

\* the paths of the nodes a nonlocal type reference is taken from
ParentPaths == { <<CANONICAL_ROOT>>, <<CANONICAL_ROOT, "m">> }

PathInit ==
    /\ stack = <<>>
    /\ head = SymbolTable(Local, <<>>)
    /\ ret = NoRet
    /\ left = None
    /\ hist = <<>>
    /\ spanic = FALSE
    /\ ResolveIdle
    /\ MirIdle
    /\ TravIdle
    /\ PipeIdle
    /\ ModuleIdle
    /\ StreamIdle

PathEnterScope(t) ==
    /\ Len(stack) < MaxPathDepth
    /\ LET r == enter_scope(stack, head, t)
       IN  /\ stack' = r.stack
           /\ head' = r.head
    /\ ret' = NoRet
    /\ UNCHANGED <<left, hist, spanic, resolveVars, mirVars, travVars, pipeVars, moduleVars, streamVars>>

PathLeaveScope ==
    /\ Len(stack) > 0
    /\ LET r == leave_scope(stack, head)
       IN  /\ stack' = r.stack
           /\ head' = r.head
    /\ ret' = NoRet
    /\ UNCHANGED <<left, hist, spanic, resolveVars, mirVars, travVars, pipeVars, moduleVars, streamVars>>

LookupPath(p) ==
    /\ ret' = [op |-> "lookup_symbol_by_path", name |-> p,
               res |-> lookup_symbol_by_path(stack, head, p), pre |-> None]
    /\ UNCHANGED <<stack, head, left, hist, spanic, resolveVars, mirVars, travVars, pipeVars, moduleVars, streamVars>>

ToCanonical(p) ==
    /\ ret' = [op |-> "to_canonical", name |-> p,
               res |-> to_canonical(stack, head, p), pre |-> None]
    /\ UNCHANGED <<stack, head, left, hist, spanic, resolveVars, mirVars, travVars, pipeVars, moduleVars, streamVars>>

ToPath ==
    /\ ret' = [op |-> "to_path", name |-> <<>>,
               res |-> to_path(stack, head), pre |-> None]
    /\ UNCHANGED <<stack, head, left, hist, spanic, resolveVars, mirVars, travVars, pipeVars, moduleVars, streamVars>>

CanonizeLocalTypeRef(ty) ==
    /\ ret' = [op |-> "canonize_local_type_ref", name |-> ty,
               res |-> canonize_local_type_ref(stack, head, ty), pre |-> None]
    /\ UNCHANGED <<stack, head, left, hist, spanic, resolveVars, mirVars, travVars, pipeVars, moduleVars, streamVars>>

CanonizeNonlocalTypeRef(parent_path, ty) ==
    /\ ret' = [op |-> "canonize_nonlocal_type_ref", name |-> ty,
               res |-> canonize_nonlocal_type_ref(parent_path, ty),
               pre |-> parent_path]
    /\ UNCHANGED <<stack, head, left, hist, spanic, resolveVars, mirVars, travVars, pipeVars, moduleVars, streamVars>>

PathNext ==
    \/ \E t \in PathTables : PathEnterScope(t)
    \/ PathLeaveScope
    \/ \E p \in PathInputs : LookupPath(p)
    \/ \E p \in PathInputs : ToCanonical(p)
    \/ ToPath
    \/ \E ty \in TypeInputs : CanonizeLocalTypeRef(ty)
    \/ \E pp \in ParentPaths, ty \in TypeInputs : CanonizeNonlocalTypeRef(pp, ty)

SpecPath == PathInit /\ [][PathNext]_vars

(***************************************************************************)
(* Properties of path lookup and canonicalization                          *)
(***************************************************************************)
RECURSIVE ItemPaths(_, _)
\* the canonical paths of the items of a module tree: the path of the module
\* followed by the item's name, for the module and each of its submodules
ItemPaths(m, prefix) ==
    { Append(prefix, m.sym.sym[i].name) : i \in 1..Len(m.sym.sym) }
        \cup UNION { ItemPaths(m.modules[j], Append(prefix, m.modules[j].name)) :
                     j \in 1..Len(m.modules) }

\* the canonical paths present in the project's module tree
ProjectPaths == ItemPaths(ProjectRoot, <<CANONICAL_ROOT>>)

\* the canonical paths present in the imported-symbol table
ImportPaths == { ImportedSymbols[i][1] : i \in 1..Len(ImportedSymbols) }

RECURSIVE ModuleNames(_, _)
\* the names of the Module-tagged tables, from table i on
ModuleNames(tables, i) ==
    IF i > Len(tables) THEN <<>>
    ELSE (IF tables[i].ty[1] = "Module" THEN <<tables[i].ty[2]>> ELSE <<>>)
         \o ModuleNames(tables, i + 1)

\* C18: to_path returns the root sentinel followed by the names of exactly the
\* Module-tagged scopes, from the bottom of the stack to the head; Routine and
\* block scopes contribute no segment.
C18_ToPathModulesOnly ==
    ret.op = "to_path" =>
        ret.res = <<CANONICAL_ROOT>> \o ModuleNames(Tables(stack, head), 1)

\* the current paths a canonical path is canonized against once more
CurrentPaths == { <<CANONICAL_ROOT>>, <<CANONICAL_ROOT, "m">>, <<CANONICAL_ROOT, "m", "f">> }

\* C19: the result of canonicalizing a path starts with the root sentinel, and
\* canonicalizing that result again, in the same scope or under any other current
\* path, returns it unchanged.
C19_CanonicalIdempotent ==
    (ret.op = "to_canonical" /\ ret.res[1] = "Ok") =>
        /\ ret.res[2][1] = CANONICAL_ROOT
        /\ to_canonical(stack, head, ret.res[2]) = ret.res
        /\ \A cur \in CurrentPaths : path_to_canonical(ret.res[2], cur) = ret.res

\* a relative path canonized inside a module, and one that already was canonical
C19_Witness ==
    /\ ret.op = "to_canonical"
    /\ head.ty = Module("m")
    /\ \/ ret.name = <<"super", "f">> /\ ret.res = <<"Ok", <<CANONICAL_ROOT, "f">>>>
       \/ ret.name = <<CANONICAL_ROOT, "m", "g">> /\ ret.res = <<"Ok", ret.name>>

RECURSIVE CustomPaths(_)
\* the paths of the Custom types inside a type: the type itself, the element of a
\* Coroutine or Array, the parameters and the return type of a routine signature
CustomPaths(ty) ==
    IF ty[1] = "Custom" THEN {ty[2]}
    ELSE IF ty[1] \in {"Coroutine", "Array"} THEN CustomPaths(ty[2])
    ELSE IF ty[1] \in {"FunctionDef", "CoroutineDef"}
    THEN CustomPaths(ty[3]) \cup UNION { CustomPaths(ty[2][i]) : i \in 1..Len(ty[2]) }
    ELSE {}

\* C20: when canonize_local_type_ref or canonize_nonlocal_type_ref succeeds, every
\* Custom path inside the returned type is canonical, also inside Coroutine, Array
\* and routine-signature types.
C20_CanonizedTypeRefs ==
    (ret.op \in {"canonize_local_type_ref", "canonize_nonlocal_type_ref"}
         /\ ret.res[1] = "Ok") =>
        \A p \in CustomPaths(ret.res[2]) : is_canonical(p)

(***************************************************************************)
(* TypeResolver: statements and expressions                                *)
(* (compiler/semantics/type_resolver.rs)                                   *)
(*                                                                         *)
(* A node is a tuple whose first element is the variant and whose second   *)
(* is the type held by its context:                                        *)
(*   <<"I64", ty, v>>  <<"Boolean", ty, v>>  <<"CustomType", ty, path>>     *)
(*   <<"If", ty, cond, if_arm, else_arm>>         else_arm an Option       *)
(*   <<"RoutineCall", ty, call, routine_path, params>>                     *)
(*   <<"ExpressionBlock", ty, sym, body, final_exp>>  final_exp an Option  *)
(*   <<"StructExpression", ty, struct_name, params>>  params of <<pn, pv>> *)
(*   <<"Bind", ty, id, declared type, mutable, rhs>>                       *)
(*   <<"Return", ty, value>>  <<"YieldReturn", ty, value>>   an Option     *)
(*   <<"Expression", ty, e>>                                               *)
(* The analysis of a node gives the result, Ok with the resolved node or   *)
(* the error, and the scope stack as the call leaves it.                   *)
(***************************************************************************)
\* SemanticNode::get_type
node_get_type(node) == node[2]

\* SemanticContext::with_type
with_type(node, ty) == [node EXCEPT ![2] = ty]

Ok(node, st, hd) == [res |-> <<"Ok", node>>, stack |-> st, head |-> hd]

Err(e, st, hd) == [res |-> e, stack |-> st, head |-> hd]

IsErr(r) == r.res[1] = "Err"

\* the call panicked: the pass ends there, no result is returned
Panic(msg, st, hd) == [res |-> <<"Panic", msg>>, stack |-> st, head |-> hd]

\* the call returned Ok: otherwise the ? operator returns the error, or the panic
\* unwinds
IsOk(r) == r.res[1] = "Ok"

\* get_current_fn: the head when it is a Routine, else the Routine nearest the top
get_current_fn(st, hd) ==
    IF hd.ty[1] = "Routine" THEN Some(hd.ty[2])
    ELSE LET rs == {i \in 1..Len(st) : st[i].ty[1] = "Routine"}
         IN  IF rs = {} THEN None
             ELSE Some(st[CHOOSE i \in rs : \A j \in rs : j <= i].ty[2])

\* lookup_func_or_cor: what the one-segment lookup of id finds must be a routine
lookup_func_or_cor(st, hd, id) ==
    LET l == lookup_symbol_by_path(st, hd, <<id>>)
    IN  IF l[1] = "Err" THEN l
        ELSE IF l[2].ty[1] \in {"CoroutineDef", "FunctionDef"}
             THEN <<"Ok", l[2].ty[2], l[2].ty[3]>>
             ELSE <<"Err", "NotACoroutineOrFunction", id>>

\* lookup_coroutine
lookup_coroutine(st, hd, id) ==
    LET l == lookup_symbol_by_path(st, hd, <<id>>)
    IN  IF l[1] = "Err" THEN l
        ELSE IF l[2].ty[1] = "CoroutineDef"
             THEN <<"Ok", l[2].ty[2], l[2].ty[3]>>
             ELSE <<"Err", "NotACoroutine", id>>

\* extract_routine_type_info
extract_routine_type_info(symbol, call, routine_path) ==
    IF symbol.ty[1] = "FunctionDef" /\ call = "Function"
    THEN <<"Ok", symbol.ty[2], FALSE, symbol.ty[3]>>
    ELSE IF symbol.ty[1] = "ExternDecl" /\ call = "Extern"
    THEN <<"Ok", symbol.ty[2], symbol.ty[3], symbol.ty[4]>>
    ELSE IF symbol.ty[1] = "CoroutineDef" /\ call = "CoroutineInit"
    THEN <<"Ok", symbol.ty[2], FALSE, Coroutine(symbol.ty[3])>>
    ELSE <<"Err", "RoutineCallInvalidTarget", call, routine_path, symbol.ty>>

RECURSIVE param_mismatches(_, _, _)
\* the loop over given.iter().zip(expected_types.iter()): (idx, expected, got) for
\* each position whose types differ, idx counted from 1
param_mismatches(given, expected_types, idx) ==
    IF idx > Len(given) \/ idx > Len(expected_types) THEN <<>>
    ELSE (IF node_get_type(given[idx]) # expected_types[idx]
          THEN << <<idx, expected_types[idx], node_get_type(given[idx])>> >>
          ELSE <<>>)
         \o param_mismatches(given, expected_types, idx + 1)

\* a plausible slip: the loop stops at the first position whose types differ
check_for_invalid_routine_parameters_first(routine_path, given, expected_types, has_varargs) ==
    LET mismatches == param_mismatches(given, expected_types, 1)
    IN  IF ~has_varargs /\ Len(mismatches) = 0 /\ Len(given) = Len(expected_types)
        THEN <<"Ok">>
        ELSE IF has_varargs /\ Len(mismatches) = 0 /\ Len(given) >= Len(expected_types)
        THEN <<"Ok">>
        ELSE <<"Err", "RoutineParamTypeMismatch", routine_path,
               IF Len(mismatches) = 0 THEN <<>> ELSE <<mismatches[1]>> >>

\* check_for_invalid_routine_parameters
check_for_invalid_routine_parameters(routine_path, given, expected_types, has_varargs) ==
    LET mismatches == param_mismatches(given, expected_types, 1)
    IN  IF ~has_varargs /\ Len(mismatches) = 0 /\ Len(given) = Len(expected_types)
        THEN <<"Ok">>
        ELSE IF has_varargs /\ Len(mismatches) = 0 /\ Len(given) >= Len(expected_types)
        THEN <<"Ok">>
        ELSE <<"Err", "RoutineParamTypeMismatch", routine_path, mismatches>>

\* Type::get_members
get_members(ty) == IF ty[1] = "StructDef" THEN Some(ty[2]) ELSE None

\* Type::get_member: the type of the first field of that name
get_member(ty, member) ==
    LET ms == get_members(ty)
        hits == IF IsSome(ms) THEN {i \in 1..Len(ms[2]) : ms[2][i][1] = member} ELSE {}
    IN  IF hits = {} THEN None
        ELSE Some(ms[2][CHOOSE i \in hits : \A j \in hits : i <= j][2])

\* a plausible slip: the else arm that is absent keeps the placeholder type
else_arm_ty_unknown(else_arm) ==
    IF IsSome(else_arm) THEN node_get_type(else_arm[2]) ELSE Unknown

\* the type of the else arm of an If: Unit when there is none
else_arm_ty(else_arm) ==
    IF IsSome(else_arm) THEN node_get_type(else_arm[2]) ELSE Unit

RECURSIVE analyze_expression(_, _, _)
RECURSIVE analyze_statement(_, _, _)
RECURSIVE analyze_params(_, _, _, _)
RECURSIVE analyze_body(_, _, _, _)
RECURSIVE analyze_struct_params(_, _, _, _, _, _)

\* resolved.push(..): the node just resolved put in front of the ones of the rest of
\* the loop, or the error of the rest
push_resolved(node, rest) ==
    IF ~IsOk(rest) THEN rest
    ELSE Ok(<<node>> \o rest.res[2], rest.stack, rest.head)

\* RoutineCall, one turn of the loop over params, given the resolved parameter
analyze_params_next(params, i, p) ==
    IF IsErr(p) THEN p
    ELSE push_resolved(p.res[2], analyze_params(p.stack, p.head, params, i + 1))

\* the loop of RoutineCall over params: the resolved nodes, or the first error
analyze_params(st, hd, params, i) ==
    IF i > Len(params) THEN Ok(<<>>, st, hd)
    ELSE analyze_params_next(params, i, analyze_expression(st, hd, params[i]))

\* ExpressionBlock, one turn of the loop over body, given the resolved statement
analyze_body_next(body, i, s) ==
    IF IsErr(s) THEN s
    ELSE push_resolved(s.res[2], analyze_body(s.stack, s.head, body, i + 1))

\* the loop of ExpressionBlock over body
analyze_body(st, hd, body, i) ==
    IF i > Len(body) THEN Ok(<<>>, st, hd)
    ELSE analyze_body_next(body, i, analyze_statement(st, hd, body[i]))

\* StructExpression, one turn of the loop over params, given the resolved value:
\* the value has the member's type
analyze_struct_param(struct_def_ty, canonical_path, params, i, member_ty, param) ==
    IF IsErr(param) THEN param
    ELSE IF node_get_type(param.res[2]) # member_ty
    THEN Err(<<"Err", "StructExprFieldTypeMismatch", canonical_path, params[i][1],
               member_ty, node_get_type(param.res[2])>>, param.stack, param.head)
    ELSE push_resolved(<<params[i][1], param.res[2]>>,
                       analyze_struct_params(param.stack, param.head, struct_def_ty,
                                             canonical_path, params, i + 1))

\* StructExpression, one turn of the loop over params, given the member looked up
analyze_struct_member(st, hd, struct_def_ty, canonical_path, params, i, member_ty) ==
    IF ~IsSome(member_ty)
    THEN Err(<<"Err", "StructExprMemberNotFound", canonical_path, params[i][1]>>, st, hd)
    ELSE analyze_struct_param(struct_def_ty, canonical_path, params, i, member_ty[2],
                              analyze_expression(st, hd, params[i][2]))

\* the loop of StructExpression over params
analyze_struct_params(st, hd, struct_def_ty, canonical_path, params, i) ==
    IF i > Len(params) THEN Ok(<<>>, st, hd)
    ELSE analyze_struct_member(st, hd, struct_def_ty, canonical_path, params, i,
                               get_member(struct_def_ty, params[i][1]))

\* analyze_bind once the symbol has been added
analyze_bind_added(bind, rhs, a) ==
    IF a.ok
    THEN Ok(<<"Bind", bind[4], bind[3], bind[4], bind[5], rhs.res[2]>>, a.stack, a.head)
    ELSE Err(<<"Err">> \o a.err, a.stack, a.head)

\* a plausible slip: the symbol is added before the types are compared
analyze_bind_rhs_add_first(bind, rhs) ==
    IF IsErr(rhs) THEN rhs
    ELSE IF bind[4] = node_get_type(rhs.res[2])
    THEN analyze_bind_added(bind, rhs,
             add(rhs.stack, rhs.head, bind[3], bind[4], bind[5], FALSE))
    ELSE Err(<<"Err", "BindExpected", bind[4], node_get_type(rhs.res[2])>>, rhs.stack,
             add(rhs.stack, rhs.head, bind[3], bind[4], bind[5], FALSE).head)

\* analyze_bind once the right-hand side is resolved: the declared type must be
\* the type of the right-hand side, then the symbol is added
analyze_bind_rhs(bind, rhs) ==
    IF IsErr(rhs) THEN rhs
    ELSE IF bind[4] = node_get_type(rhs.res[2])
    THEN analyze_bind_added(bind, rhs,
             add(rhs.stack, rhs.head, bind[3], bind[4], bind[5], FALSE))
    ELSE Err(<<"Err", "BindExpected", bind[4], node_get_type(rhs.res[2])>>,
             rhs.stack, rhs.head)

\* the slip below once the right-hand side is resolved: the types are compared
analyze_bind_registered_rhs(bind, rhs) ==
    IF IsErr(rhs) THEN rhs
    ELSE IF bind[4] = node_get_type(rhs.res[2])
    THEN Ok(<<"Bind", bind[4], bind[3], bind[4], bind[5], rhs.res[2]>>, rhs.stack, rhs.head)
    ELSE Err(<<"Err", "BindExpected", bind[4], node_get_type(rhs.res[2])>>,
             rhs.stack, rhs.head)

\* the slip below once the symbol is added
analyze_bind_registered(st, hd, bind, a) ==
    IF ~a.ok THEN Err(<<"Err">> \o a.err, st, hd)
    ELSE analyze_bind_registered_rhs(bind, analyze_expression(a.stack, a.head, bind[6]))

\* a plausible slip: the bound name is registered before the right-hand side is
\* resolved, so that the initializer sees the variable it initializes
analyze_bind_register_first(st, hd, bind) ==
    analyze_bind_registered(st, hd, bind, add(st, hd, bind[3], bind[4], bind[5], FALSE))

\* analyze_bind
analyze_bind(st, hd, bind) ==
    analyze_bind_rhs(bind, analyze_expression(st, hd, bind[6]))

\* the value of a Return or YieldReturn: resolved when there is one
analyze_value(st, hd, value) ==
    IF IsSome(value) THEN analyze_expression(st, hd, value[2]) ELSE Ok(None, st, hd)

\* (actual_ret_exp, actual_ret_ty): Unit when there is no value
actual_ret_ty(value, exp) == IF IsSome(value) THEN node_get_type(exp.res[2]) ELSE Unit

actual_ret_exp(value, exp) == IF IsSome(value) THEN Some(exp.res[2]) ELSE None

\* analyze_yieldreturn once the coroutine has been looked up
analyze_yieldreturn_expected(yr, exp, l) ==
    IF l[1] = "Err" THEN Err(l, exp.stack, exp.head)
    ELSE IF actual_ret_ty(yr[3], exp) = l[3]
    THEN Ok(<<"YieldReturn", actual_ret_ty(yr[3], exp), actual_ret_exp(yr[3], exp)>>,
            exp.stack, exp.head)
    ELSE Err(<<"Err", "YieldExpected", l[3], actual_ret_ty(yr[3], exp)>>,
             exp.stack, exp.head)

\* analyze_yieldreturn once the current routine is known
analyze_yieldreturn_in(yr, exp, current_func) ==
    IF ~IsSome(current_func) THEN Err(<<"Err", "YieldInvalidLocation">>, exp.stack, exp.head)
    ELSE analyze_yieldreturn_expected(yr, exp,
             lookup_coroutine(exp.stack, exp.head, current_func[2]))

\* analyze_yieldreturn once the value is resolved
analyze_yieldreturn_value(yr, exp) ==
    IF IsErr(exp) THEN exp
    ELSE analyze_yieldreturn_in(yr, exp, get_current_fn(exp.stack, exp.head))

\* analyze_yieldreturn
analyze_yieldreturn(st, hd, yr) ==
    analyze_yieldreturn_value(yr, analyze_value(st, hd, yr[3]))

\* analyze_return once the routine has been looked up: the type of the value must
\* be the return type found
analyze_return_expected(r, exp, l) ==
    IF l[1] = "Err" THEN Err(l, exp.stack, exp.head)
    ELSE IF actual_ret_ty(r[3], exp) = l[3]
    THEN Ok(<<"Return", actual_ret_ty(r[3], exp), actual_ret_exp(r[3], exp)>>,
            exp.stack, exp.head)
    ELSE Err(<<"Err", "ReturnExpected", l[3], actual_ret_ty(r[3], exp)>>,
             exp.stack, exp.head)

\* analyze_return once the current routine is known
analyze_return_in(r, exp, current_func) ==
    IF ~IsSome(current_func) THEN Err(<<"Err", "ReturnInvalidLocation">>, exp.stack, exp.head)
    ELSE analyze_return_expected(r, exp,
             lookup_func_or_cor(exp.stack, exp.head, current_func[2]))

\* analyze_return once the value is resolved
analyze_return_value(r, exp) ==
    IF IsErr(exp) THEN exp
    ELSE analyze_return_in(r, exp, get_current_fn(exp.stack, exp.head))

\* analyze_return
analyze_return(st, hd, r) ==
    analyze_return_value(r, analyze_value(st, hd, r[3]))

\* Statement::Expression once the expression is resolved
analyze_statement_expression(e) ==
    IF IsErr(e) THEN e
    ELSE Ok(<<"Expression", node_get_type(e.res[2]), e.res[2]>>, e.stack, e.head)

\* analyze_statement (Mutate is not modelled)
analyze_statement(st, hd, stmt) ==
    IF stmt[1] = "Bind" THEN analyze_bind(st, hd, stmt)
    ELSE IF stmt[1] = "Return" THEN analyze_return(st, hd, stmt)
    ELSE IF stmt[1] = "YieldReturn" THEN analyze_yieldreturn(st, hd, stmt)
    ELSE analyze_statement_expression(analyze_expression(st, hd, stmt[3]))

\* If once both arms are resolved: the arms must have the same type, which is the
\* type of the if-expression
analyze_if_arms(cond, if_arm, else_arm, e) ==
    IF node_get_type(if_arm.res[2]) = else_arm_ty(else_arm)
    THEN Ok(<<"If", node_get_type(if_arm.res[2]), cond.res[2], if_arm.res[2], else_arm>>,
            e.stack, e.head)
    ELSE Err(<<"Err", "IfExprMismatchArms", node_get_type(if_arm.res[2]),
               else_arm_ty(else_arm)>>, e.stack, e.head)

\* If once the else arm is resolved, when there is one
analyze_if_else(ast, cond, if_arm, e) ==
    IF IsErr(e) THEN e
    ELSE analyze_if_arms(cond, if_arm, IF IsSome(ast[5]) THEN Some(e.res[2]) ELSE None, e)

\* If once the then arm is resolved
analyze_if_then(ast, cond, if_arm) ==
    IF IsErr(if_arm) THEN if_arm
    ELSE analyze_if_else(ast, cond, if_arm, analyze_value(if_arm.stack, if_arm.head, ast[5]))

\* If once the condition is resolved: it must be a Bool
analyze_if_cond(ast, cond) ==
    IF IsErr(cond) THEN cond
    ELSE IF node_get_type(cond.res[2]) = Bool
    THEN analyze_if_then(ast, cond, analyze_expression(cond.stack, cond.head, ast[4]))
    ELSE Err(<<"Err", "CondExpectedBool", node_get_type(cond.res[2])>>, cond.stack, cond.head)

\* RoutineCall once the parameter types have been compared
analyze_call_checked(ps, call, routine_canon_path, ret_ty, c) ==
    IF c[1] = "Err" THEN Err(c, ps.stack, ps.head)
    ELSE Ok(<<"RoutineCall", ret_ty, call, routine_canon_path, ps.res[2]>>, ps.stack, ps.head)

\* RoutineCall once the routine's type is known: the number of parameters, then
\* their types
analyze_call_info(ast, ps, call, routine_canon_path, info) ==
    IF info[1] = "Err" THEN Err(info, ps.stack, ps.head)
    ELSE IF ~info[3] /\ Len(ps.res[2]) # Len(info[2])
    THEN Err(<<"Err", "RoutineCallWrongNumParams", ast[4], Len(info[2]), Len(ps.res[2])>>,
             ps.stack, ps.head)
    ELSE IF info[3] /\ Len(ps.res[2]) < Len(info[2])
    THEN Err(<<"Err", "FunctionParamsNotEnough", ast[4], Len(info[2]), Len(ps.res[2])>>,
             ps.stack, ps.head)
    ELSE analyze_call_checked(ps, call, routine_canon_path, info[4],
             check_for_invalid_routine_parameters(ast[4], ps.res[2], info[2], info[3]))

\* RoutineCall once the kind of the call is settled
analyze_call_kind(ast, ps, symbol, routine_canon_path, call) ==
    analyze_call_info(ast, ps, call, routine_canon_path,
                      extract_routine_type_info(symbol, call, routine_canon_path))

\* RoutineCall once the routine has been looked up: an extern symbol makes it an
\* extern call
analyze_call_symbol(ast, ps, l) ==
    IF l[1] = "Err" THEN Err(l, ps.stack, ps.head)
    ELSE analyze_call_kind(ast, ps, l[2], l[3], IF l[2].is_extern THEN "Extern" ELSE ast[3])

\* RoutineCall once the parameters are resolved
analyze_call_params(ast, ps) ==
    IF IsErr(ps) THEN ps
    ELSE analyze_call_symbol(ast, ps, lookup_symbol_by_path(ps.stack, ps.head, ast[4]))

\* ExpressionBlock once the scope is left: the table returned goes into the node
analyze_block_left(ast, body, fe, lv) ==
    Ok(<<"ExpressionBlock", actual_ret_ty(ast[5], fe), lv.ret, body.res[2],
         actual_ret_exp(ast[5], fe)>>, lv.stack, lv.head)

\* ExpressionBlock once the final expression is resolved, when there is one
analyze_block_final(ast, body, fe) ==
    IF IsErr(fe) THEN fe
    ELSE analyze_block_left(ast, body, fe, leave_scope(fe.stack, fe.head))

\* ExpressionBlock once the statements are resolved
analyze_block_body(ast, body) ==
    IF IsErr(body) THEN body
    ELSE analyze_block_final(ast, body, analyze_value(body.stack, body.head, ast[5]))

\* ExpressionBlock once the scope of the block is entered
analyze_block_entered(ast, entered) ==
    analyze_block_body(ast, analyze_body(entered.stack, entered.head, ast[4], 1))

\* StructExpression once the fields are resolved: the type is the struct's name
analyze_struct_fields(ast, canonical_path, ps) ==
    IF IsErr(ps) THEN ps
    ELSE Ok(<<"StructExpression", Custom(ast[3]), canonical_path, ps.res[2]>>,
            ps.stack, ps.head)

\* StructExpression once the members of the definition are known
analyze_struct_members(st, hd, ast, l, members) ==
    IF ~IsSome(members) THEN Err(<<"Err", "InvalidStructure">>, st, hd)
    ELSE IF Len(ast[4]) # Len(members[2])
    THEN Err(<<"Err", "StructExprWrongNumParams", Len(members[2]), Len(ast[4])>>, st, hd)
    ELSE analyze_struct_fields(ast, l[3],
             analyze_struct_params(st, hd, l[2].ty, l[3], ast[4], 1))

\* StructExpression once the struct has been looked up
analyze_struct_symbol(st, hd, ast, l) ==
    IF l[1] = "Err" THEN Err(l, st, hd)
    ELSE analyze_struct_members(st, hd, ast, l, get_members(l[2].ty))

\* Identifier once lookup_var has answered: the context takes the symbol's type
analyze_identifier(st, hd, ast, l) ==
    IF l[1] = "Err" THEN Err(l, st, hd) ELSE Ok(with_type(ast, l[2].ty), st, hd)

\* analyze_expression, for the literals, Identifier, CustomType, If, RoutineCall,
\* ExpressionBlock and StructExpression
analyze_expression(st, hd, ast) ==
    IF ast[1] = "I64" THEN Ok(with_type(ast, I64), st, hd)
    ELSE IF ast[1] = "Identifier"
    THEN analyze_identifier(st, hd, ast, lookup_var(st, hd, ast[3]))
    ELSE IF ast[1] = "Boolean" THEN Ok(with_type(ast, Bool), st, hd)
    ELSE IF ast[1] = "CustomType" THEN Ok(with_type(ast, Custom(ast[3])), st, hd)
    ELSE IF ast[1] = "If" THEN analyze_if_cond(ast, analyze_expression(st, hd, ast[3]))
    ELSE IF ast[1] = "RoutineCall"
    THEN analyze_call_params(ast, analyze_params(st, hd, ast[5], 1))
    ELSE IF ast[1] = "ExpressionBlock"
    THEN analyze_block_entered(ast, enter_scope(st, hd, ast[3]))
    ELSE analyze_struct_symbol(st, hd, ast, lookup_symbol_by_path(st, hd, ast[3]))

(***************************************************************************)
(* Statements and expressions resolved against the scope stack             *)
(***************************************************************************)
\* the deepest nesting of block scopes inside a routine
MaxBlocksOpen == 1

I64Lit == <<"I64", Unknown, 1>>

BoolLit == <<"Boolean", Unknown, TRUE>>

\* an expression block with no statements
EmptyBlock(final_exp) ==
    <<"ExpressionBlock", Unknown, SymbolTable(Local, <<>>), <<>>, final_exp>>

\* the tables of the routines whose bodies are resolved: f has no parameters, co
\* has the parameter p
RoutineTables ==
    { SymbolTable(Routine("f"), <<>>),
      SymbolTable(Routine("co"), <<Symbol("p", I64, FALSE, FALSE)>>) }

\* let mut f: bool := true;  let f: i64 := 1;  let f: i64 := true;
\* the name is that of the routine f, which a local variable may shadow
BindStatements ==
    { <<"Bind", Unknown, "f", Bool, TRUE, BoolLit>>,
      <<"Bind", Unknown, "f", I64, FALSE, I64Lit>>,
      <<"Bind", Unknown, "f", I64, FALSE, BoolLit>> }

ReturnStatements ==
    { <<k, Unknown, v>> : k \in {"Return", "YieldReturn"},
                          v \in {None, Some(I64Lit), Some(BoolLit)} }

\* the arms of the if-expressions: blocks of type I64, Bool and Unit
Arms == { EmptyBlock(Some(I64Lit)), EmptyBlock(Some(BoolLit)), EmptyBlock(None) }

IfExpressions ==
    { <<"If", Unknown, c, a, e>> :
        c \in {BoolLit, I64Lit},
        a \in Arms \ {EmptyBlock(Some(BoolLit))},
        e \in {None} \cup { Some(x) : x \in Arms \ {EmptyBlock(None)} } }

\* the argument lists of the calls
ArgLists ==
    { <<>>, <<I64Lit>>, <<I64Lit, BoolLit>>, <<BoolLit, I64Lit>>,
      <<I64Lit, BoolLit, BoolLit>>, <<BoolLit, I64Lit, I64Lit>> }

\* calls of the function h(i64, bool), of the function f() by its canonical path,
\* of the varargs extern ext(i64, ...) and initializations of the coroutine co(i64)
RoutineCalls ==
    { <<"RoutineCall", Unknown, "Function", p, a>> :
        p \in { <<"h">>, <<"ext">> }, a \in ArgLists }
    \cup { <<"RoutineCall", Unknown, "Function", <<CANONICAL_ROOT, "f">>, a>> :
             a \in { <<>>, <<I64Lit>> } }
    \cup { <<"RoutineCall", Unknown, "CoroutineInit", <<"co">>, a>> :
             a \in { <<I64Lit>>, <<BoolLit>> } }

\* struct expressions of the struct P {a: i64, b: bool}: the fields in and out of
\* order, a twice, a alone, a field c, b of another type
PExpressions ==
    { <<"StructExpression", Unknown, <<CANONICAL_ROOT, "P">>, ps>> :
        ps \in { << <<"a", I64Lit>>, <<"b", BoolLit>> >>,
                 << <<"b", BoolLit>>, <<"a", I64Lit>> >>,
                 << <<"a", I64Lit>>, <<"a", I64Lit>> >>,
                 << <<"a", I64Lit>> >>,
                 << <<"a", I64Lit>>, <<"c", BoolLit>> >>,
                 << <<"a", I64Lit>>, <<"b", I64Lit>> >> } }

OtherExpressions ==
    PExpressions \cup
    { <<"CustomType", Unknown, <<CANONICAL_ROOT, "S">>>>,
      <<"StructExpression", Unknown, <<CANONICAL_ROOT, "S">>, << <<"a", BoolLit>> >>>>,
      <<"StructExpression", Unknown, <<CANONICAL_ROOT, "S">>, << <<"a", I64Lit>> >>>>,
      <<"ExpressionBlock", Unknown, SymbolTable(Local, <<>>),
        << <<"Bind", Unknown, "x", Bool, TRUE, BoolLit>> >>, Some(BoolLit)>> }

TypeInit ==
    /\ stack = <<>>
    /\ head = SymbolTable(Local, <<>>)
    /\ ret = NoRet
    /\ left = None
    /\ hist = <<>>
    /\ spanic = FALSE
    /\ ResolveIdle
    /\ MirIdle
    /\ TravIdle
    /\ PipeIdle
    /\ ModuleIdle
    /\ StreamIdle

\* the block scopes open above the innermost routine
BlocksOpen(st, hd) ==
    Cardinality({ i \in 1..Len(Append(st, hd)) :
                    /\ Append(st, hd)[i].ty = Local
                    /\ \E j \in 1..(i - 1) : Append(st, hd)[j].ty[1] = "Routine" })

\* analyze_module enters the table of the root module
TypeEnterModule ==
    /\ stack = <<>>
    /\ LET r == enter_scope(stack, head, ProjectRoot.sym)
       IN  /\ stack' = r.stack
           /\ head' = r.head
    /\ ret' = NoRet
    /\ UNCHANGED <<left, hist, spanic, resolveVars, mirVars, travVars, pipeVars, moduleVars, streamVars>>

\* analyze_routine enters the table of a routine of the module
TypeEnterRoutine(t) ==
    /\ head.ty[1] = "Module"
    /\ LET r == enter_scope(stack, head, t)
       IN  /\ stack' = r.stack
           /\ head' = r.head
    /\ ret' = NoRet
    /\ UNCHANGED <<left, hist, spanic, resolveVars, mirVars, travVars, pipeVars, moduleVars, streamVars>>

\* an expression block of the body is entered
TypeEnterBlock ==
    /\ head.ty[1] \in {"Routine", "Local"}
    /\ Len(stack) > 0
    /\ BlocksOpen(stack, head) < MaxBlocksOpen
    /\ LET r == enter_scope(stack, head, SymbolTable(Local, <<>>))
       IN  /\ stack' = r.stack
           /\ head' = r.head
    /\ ret' = NoRet
    /\ UNCHANGED <<left, hist, spanic, resolveVars, mirVars, travVars, pipeVars, moduleVars, streamVars>>

TypeLeaveScope ==
    /\ Len(stack) > 0
    /\ LET r == leave_scope(stack, head)
       IN  /\ stack' = r.stack
           /\ head' = r.head
    /\ ret' = NoRet
    /\ UNCHANGED <<left, hist, spanic, resolveVars, mirVars, travVars, pipeVars, moduleVars, streamVars>>

\* the binds whose initializer is the bound name itself:
\* let p: i64 := p;  let p: bool := p;  let q: i64 := q;  let f: i64 := f;
SelfBinds ==
    { <<"Bind", Unknown, "p", I64, FALSE, <<"Identifier", Unknown, "p">>>>,
      <<"Bind", Unknown, "p", Bool, FALSE, <<"Identifier", Unknown, "p">>>>,
      <<"Bind", Unknown, "q", I64, FALSE, <<"Identifier", Unknown, "q">>>>,
      <<"Bind", Unknown, "f", I64, FALSE, <<"Identifier", Unknown, "f">>>> }

\* the call recorded for a statement: analyze_bind for the binds whose initializer
\* names the bound variable, which analyze_statement hands to it
StatementOp(stmt) == IF stmt \in SelfBinds THEN "analyze_bind" ELSE "analyze_statement"

\* a statement of a routine body is resolved; a Return is also tried outside of
\* every routine
AnalyzeStatement(stmt) ==
    /\ stmt[1] = "Bind" => IsSome(get_current_fn(stack, head))
    /\ LET r == analyze_statement(stack, head, stmt)
       IN  /\ stack' = r.stack
           /\ head' = r.head
           /\ ret' = [op |-> StatementOp(stmt), name |-> stmt, res |-> r.res,
                      pre |-> [stack |-> stack, head |-> head]]
    /\ UNCHANGED <<left, hist, spanic, resolveVars, mirVars, travVars, pipeVars, moduleVars, streamVars>>

\* an expression of a routine body is resolved
AnalyzeExpression(ast) ==
    /\ IsSome(get_current_fn(stack, head))
    /\ LET r == analyze_expression(stack, head, ast)
       IN  /\ stack' = r.stack
           /\ head' = r.head
           /\ ret' = [op |-> "analyze_expression", name |-> ast, res |-> r.res,
                      pre |-> [stack |-> stack, head |-> head]]
    /\ UNCHANGED <<left, hist, spanic, resolveVars, mirVars, travVars, pipeVars, moduleVars, streamVars>>

TypeNext ==
    \/ TypeEnterModule
    \/ \E t \in RoutineTables : TypeEnterRoutine(t)
    \/ TypeEnterBlock
    \/ TypeLeaveScope
    \/ \E s \in BindStatements \cup SelfBinds \cup ReturnStatements : AnalyzeStatement(s)
    \/ \E e \in IfExpressions \cup RoutineCalls \cup OtherExpressions : AnalyzeExpression(e)

SpecType == TypeInit /\ [][TypeNext]_vars

(***************************************************************************)
(* Properties of the resolved statements and expressions                   *)
(***************************************************************************)
\* the statement or expression just resolved is of this variant
Resolved(variant) == ret.op \in {"analyze_statement", "analyze_expression"} /\ ret.name[1] = variant

\* the type of a literal, or of a block with no statements: that of its final
\* expression, Unit when there is none
StaticType(e) ==
    IF e[1] = "I64" THEN I64
    ELSE IF e[1] = "Boolean" THEN Bool
    ELSE IF IsSome(e[5])
         THEN (IF e[5][2][1] = "I64" THEN I64 ELSE Bool)
         ELSE Unit

\* the table a Bind was resolved against, and the same table with the symbol of the
\* Bind appended
BindHeld == IsSome(table_get(ret.pre.head, ret.name[3]))

\* C13 (as stated): a Bind whose declared type differs from the type of its
\* right-hand side fails with BindExpected(declared, actual) and registers no symbol;
\* when the types are equal the name is registered in the head scope with the
\* declared type and mutability.
C13_BindAsStated ==
    Resolved("Bind") =>
        IF ret.name[4] # StaticType(ret.name[6])
        THEN /\ ret.res = <<"Err", "BindExpected", ret.name[4], StaticType(ret.name[6])>>
             /\ head = ret.pre.head /\ stack = ret.pre.stack
        ELSE /\ ret.res[1] = "Ok"
             /\ Last(head.sym) = Symbol(ret.name[3], ret.name[4], ret.name[5], FALSE)

\* C13 (amended): as stated when the head scope does not hold the name yet; when
\* the types are equal and the head scope already holds the name, the Bind fails
\* with AlreadyDeclared and the scope stack is left as it was.
C13_BindTypeEquality ==
    Resolved("Bind") =>
        IF ret.name[4] # StaticType(ret.name[6])
        THEN /\ ret.res = <<"Err", "BindExpected", ret.name[4], StaticType(ret.name[6])>>
             /\ head = ret.pre.head /\ stack = ret.pre.stack
        ELSE IF BindHeld
        THEN /\ ret.res = <<"Err", "AlreadyDeclared", ret.name[3]>>
             /\ head = ret.pre.head /\ stack = ret.pre.stack
        ELSE /\ ret.res[1] = "Ok"
             /\ node_get_type(ret.res[2]) = ret.name[4]
             /\ stack = ret.pre.stack
             /\ head = [ret.pre.head EXCEPT !.sym =
                           Append(@, Symbol(ret.name[3], ret.name[4], ret.name[5], FALSE))]

\* a mutable Bind registered in a block that shadows the name of an outer scope
C13_Witness ==
    /\ Resolved("Bind")
    /\ ret.res[1] = "Ok"
    /\ ret.name[5]
    /\ head.ty = Local
    /\ Len(stack) > 0
    /\ IsSome(table_get(Last(stack), ret.name[3]))

\* the routines on the scope stack a statement was resolved against, innermost last
EnclosingRoutines ==
    LET tables == Tables(ret.pre.stack, ret.pre.head)
    IN  SelectSeq(tables, LAMBDA t : t.ty[1] = "Routine")

\* the declared return type of a routine of the root module: the return type of
\* its definition
DeclaredReturn(name) == table_get(ProjectRoot.sym, name)[2].ty[3]

\* the type of the value of a Return or YieldReturn, Unit when there is none
ValueType(value) == IF IsSome(value) THEN StaticType(value[2]) ELSE Unit

\* C14: a Return inside a routine body, or a YieldReturn inside a coroutine body,
\* resolves exactly when the type of its value (Unit when there is none) is the
\* declared return type of the enclosing routine, whatever names are bound in the
\* scopes in between; with no enclosing routine it fails with
\* ReturnInvalidLocation or YieldInvalidLocation.
C14_ReturnMatchesRoutine ==
    (Resolved("Return") \/ Resolved("YieldReturn")) =>
        IF Len(EnclosingRoutines) = 0
        THEN ret.res = <<"Err", IF ret.name[1] = "Return" THEN "ReturnInvalidLocation"
                                ELSE "YieldInvalidLocation">>
        ELSE LET routine == Last(EnclosingRoutines).ty[2]
             IN  (ret.name[1] = "Return" \/ routine = "co") =>
                     ((ret.res[1] = "Ok") <=> (ValueType(ret.name[3]) = DeclaredReturn(routine)))

\* C15: an if-expression resolves exactly when its condition is a Bool and its
\* arms have the same type, the else arm counting as Unit when absent; its type is
\* then the type of the then arm, and arms of different types give the
\* arm-mismatch error carrying both types.
C15_IfArms ==
    Resolved("If") =>
        LET cond_ty == StaticType(ret.name[3])
            if_ty == StaticType(ret.name[4])
            else_ty == ValueType(ret.name[5])
        IN  /\ (ret.res[1] = "Ok") <=> (cond_ty = Bool /\ if_ty = else_ty)
            /\ ret.res[1] = "Ok" => node_get_type(ret.res[2]) = if_ty
            /\ (cond_ty = Bool /\ if_ty # else_ty) =>
                   ret.res = <<"Err", "IfExprMismatchArms", if_ty, else_ty>>
            /\ stack = ret.pre.stack /\ head = ret.pre.head

\* an if-expression with no else arm whose then arm is of type Unit
C15_Witness ==
    /\ Resolved("If")
    /\ ret.name[5] = None
    /\ ret.res[1] = "Ok"
    /\ node_get_type(ret.res[2]) = Unit

\* the routine a call names, as the root module declares it
Callee(path) == table_get(ProjectRoot.sym, Last(path))[2]

\* the declared parameter types of a routine and whether it takes varargs
DeclaredParams(sym) == sym.ty[2]

HasVarArgs(sym) == sym.ty[1] = "ExternDecl" /\ sym.ty[3]

\* the positions of the declared parameters whose argument has another type
Mismatching(args, sym) ==
    { i \in 1..Len(args) : i <= Len(DeclaredParams(sym))
                            /\ StaticType(args[i]) # DeclaredParams(sym)[i] }

\* C16: a call resolves exactly when the number of arguments is the number of
\* declared parameters (or at least that number for a varargs callee) and every
\* argument in a declared position has the declared type; when the number is right
\* and types differ, the error lists every position that differs, in order, with
\* the expected and the given type.
C16_RoutineCallChecks ==
    Resolved("RoutineCall") =>
        LET sym == Callee(ret.name[4])
            args == ret.name[5]
            arity_ok == IF HasVarArgs(sym) THEN Len(args) >= Len(DeclaredParams(sym))
                        ELSE Len(args) = Len(DeclaredParams(sym))
            bad == Mismatching(args, sym)
        IN  /\ (ret.res[1] = "Ok") <=> (arity_ok /\ bad = {})
            /\ (arity_ok /\ bad # {}) =>
                   /\ ret.res[1] = "Err" /\ ret.res[2] = "RoutineParamTypeMismatch"
                   /\ Len(ret.res[4]) = Cardinality(bad)
                   /\ \A k \in 1..Len(ret.res[4]) :
                          /\ ret.res[4][k][1] \in bad
                          /\ ret.res[4][k][2] = DeclaredParams(sym)[ret.res[4][k][1]]
                          /\ ret.res[4][k][3] = StaticType(args[ret.res[4][k][1]])
                          /\ k > 1 => ret.res[4][k - 1][1] < ret.res[4][k][1]

\* a call of h(i64, bool) with both arguments of the wrong type: both are listed
C16_Witness ==
    /\ Resolved("RoutineCall")
    /\ ret.name[4] = <<"h">>
    /\ ret.res[1] = "Err"
    /\ ret.res[2] = "RoutineParamTypeMismatch"
    /\ Len(ret.res[4]) = 2

(***************************************************************************)
(* resolve_types_with_imports: the passes over a module                    *)
(* (compiler/semantics/type_resolver.rs, semanticnode.rs)                  *)
(*                                                                         *)
(* A module is a record of its name and its modules, functions,            *)
(* coroutines, structs and externs; a routine of its name, def, params,    *)
(* ret_ty and body; a struct of its name and fields; an extern of its      *)
(* name, params, has_varargs and ret_ty.  The semantic tree adds to each   *)
(* the type of its context, ty, and to modules and routines the symbol     *)
(* table of their context, sym.  The statements of a body are written with *)
(* the context from_module gives them, whose type is Unknown.              *)
(***************************************************************************)
\* the ? operator over the results of a map: the first error, else the values
collect(results) ==
    LET errs == {i \in 1..Len(results) : results[i][1] = "Err"}
    IN  IF errs = {}
        THEN <<"Ok", [i \in 1..Len(results) |-> results[i][2]]>>
        ELSE results[CHOOSE i \in errs : \A j \in errs : i <= j]

\* SemanticAst::semantic_context_from: a context of type Unknown
semantic_context_from(n) == [ty |-> Unknown] @@ n

\* SemanticAst::routine_semantic_context_from: type Unknown, an empty routine table
routine_semantic_context_from(n) ==
    [ty |-> Unknown, sym |-> SymbolTable(Routine(n.name), <<>>), canonical_path |-> <<>>] @@ n

RECURSIVE from_module(_)
\* SemanticAst::from_module: every node gets its semantic context; a module gets
\* type Unknown and an empty module table
from_module(m) ==
    [name |-> m.name,
     ty |-> Unknown,
     sym |-> SymbolTable(Module(m.name), <<>>),
     modules |-> [i \in 1..Len(m.modules) |-> from_module(m.modules[i])],
     functions |-> [i \in 1..Len(m.functions) |->
                      routine_semantic_context_from(m.functions[i])],
     coroutines |-> [i \in 1..Len(m.coroutines) |->
                       routine_semantic_context_from(m.coroutines[i])],
     structs |-> [i \in 1..Len(m.structs) |-> semantic_context_from(m.structs[i])],
     externs |-> [i \in 1..Len(m.externs) |-> semantic_context_from(m.externs[i])]]

\* the types of a list of parameters or fields, each <<name, type>>
param_types(params) == [i \in 1..Len(params) |-> params[i][2]]

\* the type references of a list of parameters or fields made canonical
canonize_params(path, params) ==
    LET r == collect([i \in 1..Len(params) |->
                        canonize_nonlocal_type_ref(path, params[i][2])])
    IN  IF r[1] = "Err" THEN r
        ELSE <<"Ok", [i \in 1..Len(params) |-> <<params[i][1], r[2][i]>>]>>

\* the declared type of a Bind made canonical, any other statement as it is
canonize_statement(path, stmt) ==
    IF stmt[1] = "Bind"
    THEN LET t == canonize_nonlocal_type_ref(path, stmt[4])
         IN  IF t[1] = "Err" THEN t ELSE <<"Ok", [stmt EXCEPT ![4] = t[2]]>>
    ELSE <<"Ok", stmt>>

\* the type references of a routine made canonical: its parameters, its return
\* type and the declared types of the binds of its body
canonize_routine(path, r) ==
    LET ps == canonize_params(path, r.params)
        rt == canonize_nonlocal_type_ref(path, r.ret_ty)
        body == collect([i \in 1..Len(r.body) |-> canonize_statement(path, r.body[i])])
    IN  IF ps[1] = "Err" THEN ps
        ELSE IF rt[1] = "Err" THEN rt
        ELSE IF body[1] = "Err" THEN body
        ELSE <<"Ok", [r EXCEPT !.params = ps[2], !.ret_ty = rt[2], !.body = body[2],
                               !.canonical_path = Append(path, r.name)]>>

\* the type references of the fields of a struct made canonical
canonize_structdef(path, s) ==
    LET fs == canonize_params(path, s.fields)
    IN  IF fs[1] = "Err" THEN fs ELSE <<"Ok", [s EXCEPT !.fields = fs[2]]>>

\* the type references of an extern made canonical
canonize_extern(path, ex) ==
    LET ps == canonize_params(path, ex.params)
        rt == canonize_nonlocal_type_ref(path, ex.ret_ty)
    IN  IF ps[1] = "Err" THEN ps
        ELSE IF rt[1] = "Err" THEN rt
        ELSE <<"Ok", [ex EXCEPT !.params = ps[2], !.ret_ty = rt[2]]>>

RECURSIVE canonize_module(_, _)
\* the type references of the items of a module made canonical against the path
\* of the module, parent_path extended by its name
canonize_module(parent_path, m) ==
    LET path == Append(parent_path, m.name)
        ms == collect([i \in 1..Len(m.modules) |-> canonize_module(path, m.modules[i])])
        fs == collect([i \in 1..Len(m.functions) |-> canonize_routine(path, m.functions[i])])
        cs == collect([i \in 1..Len(m.coroutines) |->
                         canonize_routine(path, m.coroutines[i])])
        ss == collect([i \in 1..Len(m.structs) |-> canonize_structdef(path, m.structs[i])])
        es == collect([i \in 1..Len(m.externs) |-> canonize_extern(path, m.externs[i])])
    IN  IF ms[1] = "Err" THEN ms
        ELSE IF fs[1] = "Err" THEN fs
        ELSE IF cs[1] = "Err" THEN cs
        ELSE IF ss[1] = "Err" THEN ss
        ELSE IF es[1] = "Err" THEN es
        ELSE <<"Ok", [m EXCEPT !.modules = ms[2], !.functions = fs[2],
                               !.coroutines = cs[2], !.structs = ss[2],
                               !.externs = es[2]]>>

\* canonize_paths: every path-valued type reference of the tree is made canonical
canonize_paths(m) == canonize_module(<<CANONICAL_ROOT>>, m)

\* the symbol of a routine: FunctionDef or CoroutineDef of its parameter types and
\* its return type
routine_symbol(r) ==
    Symbol(r.name,
           IF r.def = "Function" THEN FunctionDef(param_types(r.params), r.ret_ty)
           ELSE CoroutineDef(param_types(r.params), r.ret_ty),
           FALSE, FALSE)

\* the symbols of the items of a module: its modules, functions, coroutines,
\* structs and externs
item_symbols(m) ==
    [i \in 1..Len(m.modules) |-> Symbol(m.modules[i].name, Unit, FALSE, FALSE)]
    \o [i \in 1..Len(m.functions) |-> routine_symbol(m.functions[i])]
    \o [i \in 1..Len(m.coroutines) |-> routine_symbol(m.coroutines[i])]
    \o [i \in 1..Len(m.structs) |->
          Symbol(m.structs[i].name, StructDef(m.structs[i].fields), FALSE, FALSE)]
    \o [i \in 1..Len(m.externs) |->
          Symbol(m.externs[i].name,
                 ExternDecl(param_types(m.externs[i].params), m.externs[i].has_varargs,
                            m.externs[i].ret_ty),
                 FALSE, TRUE)]

RECURSIVE add_items_to_table(_, _, _)
\* the symbols added to the table one after the other, the first failure ends it
add_items_to_table(table, syms, i) ==
    IF i > Len(syms) THEN <<"Ok", table>>
    ELSE LET r == table_add(table, syms[i].name, syms[i].ty, syms[i].mutable,
                            syms[i].is_extern)
         IN  IF r.ok THEN add_items_to_table(r.table, syms, i + 1)
             ELSE <<"Err">> \o r.err

RECURSIVE add_item_defs_to_table(_)
\* SymbolTable::add_item_defs_to_table: the symbol of every item of a module is
\* added to the table of the module, and so for every module below it
add_item_defs_to_table(m) ==
    LET t == add_items_to_table(m.sym, item_symbols(m), 1)
        ms == collect([i \in 1..Len(m.modules) |-> add_item_defs_to_table(m.modules[i])])
    IN  IF t[1] = "Err" THEN t
        ELSE IF ms[1] = "Err" THEN ms
        ELSE <<"Ok", [m EXCEPT !.sym = t[2], !.modules = ms[2]]>>

\* analyze_routine once the body is resolved: the scope is left and its table is
\* the table of the routine
analyze_routine_left(ctx, body) ==
    IF IsErr(body) THEN body
    ELSE LET l == leave_scope(body.stack, body.head)
         IN  Ok([ctx EXCEPT !.sym = l.ret, !.body = body.res[2]], l.stack, l.head)

\* analyze_routine once the parameters are in the table of the context: the table
\* is entered and the statements of the body are resolved in order
analyze_routine_params(st, hd, ctx, added) ==
    IF ~added.ok
    THEN Err(<<"Err", "AlreadyDeclared">>, st, hd)
    ELSE analyze_routine_left([ctx EXCEPT !.sym = added.table],
                              analyze_body(Append(st, hd), added.table, ctx.body, 1))

\* a plausible slip: the return type of the entry point is not checked
validate_main_fn_any_return_type(routine) ==
    IF routine.def # "Function" THEN <<"Err", "MainFnInvalidType">>
    ELSE IF Len(routine.params) > 0 THEN <<"Err", "MainFnInvalidParams">>
    ELSE <<"Ok">>

\* validate_main_fn: the entry point is a function, without parameters, that
\* returns i64
validate_main_fn(routine) ==
    IF routine.def # "Function" THEN <<"Err", "MainFnInvalidType">>
    ELSE IF Len(routine.params) > 0 THEN <<"Err", "MainFnInvalidParams">>
    ELSE IF routine.ret_ty # I64 THEN <<"Err", "MainFnInvalidType">>
    ELSE <<"Ok">>

\* analyze_routine (no parameter has a Custom type): a routine at the path of the
\* entry point is validated first, then the context takes the return type
analyze_routine(st, hd, routine) ==
    IF routine.canonical_path = main_fn /\ validate_main_fn(routine)[1] = "Err"
    THEN Err(validate_main_fn(routine), st, hd)
    ELSE analyze_routine_params(st, hd, [routine EXCEPT !.ty = routine.ret_ty],
                                add_params(routine.sym, routine.params, 1))

\* analyze_structdef (no field has a Custom type): the context takes the type Unit
analyze_structdef(st, hd, struct_def) ==
    Ok([struct_def EXCEPT !.ty = Unit], st, hd)

\* analyze_extern: panics when a parameter has a Custom type, else the context
\* takes the return type
analyze_extern(st, hd, ex) ==
    IF \E i \in 1..Len(ex.params) : ex.params[i][2][1] = "Custom"
    THEN Panic("Custom types are not supported for extern function declarations", st, hd)
    ELSE Ok([ex EXCEPT !.ty = ex.ret_ty], st, hd)

RECURSIVE analyze_module(_, _, _)

RECURSIVE analyze_items(_, _, _, _)

\* analyze_item, and analyze_module for the modules of a module
analyze_item(st, hd, item) ==
    IF item[1] = "Module" THEN analyze_module(st, hd, item[2])
    ELSE IF item[1] = "Routine" THEN analyze_routine(st, hd, item[2])
    ELSE IF item[1] = "Struct" THEN analyze_structdef(st, hd, item[2])
    ELSE analyze_extern(st, hd, item[2])

\* one turn of the maps over the items of a module, given the resolved item
analyze_items_next(items, i, item) ==
    IF ~IsOk(item) THEN item
    ELSE push_resolved(item.res[2], analyze_items(item.stack, item.head, items, i + 1))

\* the maps over the items of a module, each collected with ?
analyze_items(st, hd, items, i) ==
    IF i > Len(items) THEN Ok(<<>>, st, hd)
    ELSE analyze_items_next(items, i, analyze_item(st, hd, items[i]))

\* the items of a module in the order analyze_module maps over them: its modules,
\* functions, coroutines, structs and externs
module_items(m) ==
    [i \in 1..Len(m.modules) |-> <<"Module", m.modules[i]>>]
    \o [i \in 1..Len(m.functions) |-> <<"Routine", m.functions[i]>>]
    \o [i \in 1..Len(m.coroutines) |-> <<"Routine", m.coroutines[i]>>]
    \o [i \in 1..Len(m.structs) |-> <<"Struct", m.structs[i]>>]
    \o [i \in 1..Len(m.externs) |-> <<"Extern", m.externs[i]>>]

\* analyze_module once its items are resolved: the scope is left, the table it
\* returns is ignored, and the new module has the name and the context of the
\* module as they were
analyze_module_left(m, items) ==
    IF ~IsOk(items) THEN items
    ELSE LET l == leave_scope(items.stack, items.head)
             r == items.res[2]
             nm == Len(m.modules)
             nf == nm + Len(m.functions)
             nc == nf + Len(m.coroutines)
             ns == nc + Len(m.structs)
         IN  Ok([name |-> m.name, ty |-> m.ty, sym |-> m.sym,
                 modules |-> SubSeq(r, 1, nm),
                 functions |-> SubSeq(r, nm + 1, nf),
                 coroutines |-> SubSeq(r, nf + 1, nc),
                 structs |-> SubSeq(r, nc + 1, ns),
                 externs |-> SubSeq(r, ns + 1, Len(r))],
                l.stack, l.head)

\* analyze_module: the table of the context is entered, then the modules,
\* functions, coroutines, structs and externs are resolved in that order
analyze_module_entered(m, e) ==
    analyze_module_left(m, analyze_items(e.stack, e.head, module_items(m), 1))

analyze_module(st, hd, m) == analyze_module_entered(m, enter_scope(st, hd, m.sym))

\* TypeResolver::resolve_types: the root module is analyzed
resolve_types(st, hd, root) == analyze_module(st, hd, root)

\* a plausible slip: the types are resolved right after the paths are made
\* canonical, the items are never added to the tables
next_pass_without_item_defs(p) ==
    IF p = "from_module" THEN "canonize_paths"
    ELSE IF p = "canonize_paths" THEN "resolve_types"
    ELSE "done"

\* resolve_types_with_imports, the order of its passes
next_pass(p) ==
    IF p = "from_module" THEN "canonize_paths"
    ELSE IF p = "canonize_paths" THEN "add_item_defs_to_table"
    ELSE IF p = "add_item_defs_to_table" THEN "resolve_types"
    ELSE "done"

(***************************************************************************)
(* The passes of the resolver over small modules                           *)
(***************************************************************************)
\* the largest number of functions of the root module
MaxRoutines == 2

\* the names of the functions of the root module, in the order they are declared
RoutineNames == <<"a", "b", "c", "d">>

\* the return type of the function declared i-th
ret_of(i) == IF i % 2 = 1 THEN I64 ELSE Bool

\* a literal of the type, and one of the other type
lit_of(ty) == IF ty = I64 THEN I64Lit ELSE BoolLit

lit_not_of(ty) == IF ty = I64 THEN BoolLit ELSE I64Lit

\* a call without arguments of the function called name
CallOf(name) == <<"RoutineCall", Unknown, "Function", <<name>>, <<>>>>

\* the function declared after the i-th of n, the first after the last
next_routine(i, n) == RoutineNames[(i % n) + 1]

BodyKinds == {"return", "call_next", "return_other", "bind", "call_undefined"}

\* the body of the function declared i-th of n: it returns a literal of its type,
\* after a call of the next function, a bind or a call of a name never declared,
\* or it returns a literal of the other type
BodyOf(kind, i, n) ==
    LET return == <<"Return", Unknown, Some(lit_of(ret_of(i)))>>
    IN  IF kind = "return" THEN <<return>>
        ELSE IF kind = "call_next"
        THEN << <<"Expression", Unknown, CallOf(next_routine(i, n))>>, return >>
        ELSE IF kind = "return_other"
        THEN << <<"Return", Unknown, Some(lit_not_of(ret_of(i)))>> >>
        ELSE IF kind = "bind"
        THEN << <<"Bind", Unknown, "x", I64, FALSE, I64Lit>>, return >>
        ELSE << <<"Expression", Unknown, CallOf("zz")>>, return >>

ParsedRoutine(name, def, params, ret_ty, body) ==
    [name |-> name, def |-> def, params |-> params, ret_ty |-> ret_ty, body |-> body]

\* the module n below the root: one function g
ParsedSubmodule ==
    [name |-> "n", modules |-> <<>>,
     functions |-> << ParsedRoutine("g", "Function", <<>>, I64,
                                    << <<"Return", Unknown, Some(I64Lit)>> >>) >>,
     coroutines |-> <<>>, structs |-> <<>>, externs |-> <<>>]

\* the root modules resolved: main, with the module n, up to MaxRoutines
\* functions followed by the function h(p: i64) -> i64, the coroutine
\* co(p: i64) -> i64, the struct S, the extern ext() -> S and, in some, the extern
\* extc(p: S)
ParsedModules ==
    { [name |-> "main",
       modules |-> <<ParsedSubmodule>>,
       functions |-> [i \in 1..n |->
                        ParsedRoutine(RoutineNames[i], "Function", <<>>, ret_of(i),
                                      BodyOf(kinds[i], i, n))]
                     \o << ParsedRoutine("h", "Function", << <<"p", I64>> >>, I64,
                                          << <<"Return", Unknown, Some(I64Lit)>> >>) >>,
       coroutines |-> << ParsedRoutine("co", "Coroutine", << <<"p", I64>> >>, I64,
                                       << <<"YieldReturn", Unknown, Some(I64Lit)>> >>) >>,
       structs |-> << [name |-> "S", fields |-> << <<"a", Bool>> >>] >>,
       externs |-> << [name |-> "ext", params |-> <<>>, has_varargs |-> FALSE,
                       ret_ty |-> Custom(<<"S">>)] >> \o extc] :
      n \in 1..MaxRoutines, kinds \in [1..MaxRoutines -> BodyKinds],
      extc \in { <<>>, << [name |-> "extc", params |-> << <<"p", Custom(<<"S">>)>> >>,
                            has_varargs |-> FALSE, ret_ty |-> Unit] >> } }

\* the entry points designated: main::a, main::b, main::h, main::co, the
\* undeclared main::my_main, and n::g, which is not the path of the g of main::n
MainFns ==
    { <<CANONICAL_ROOT, "main", f>> : f \in {"a", "b", "h", "co", "my_main"} }
    \cup { <<CANONICAL_ROOT, "n", "g">> }

PipeInit ==
    /\ ModuleIdle
    /\ StreamIdle
    /\ parsed \in ParsedModules
    /\ main_fn \in MainFns
    /\ sm_ast = None
    /\ pass = "from_module"
    /\ stack = <<>>
    /\ head = SymbolTable(Local, <<>>)
    /\ ret = NoRet
    /\ left = None
    /\ hist = <<>>
    /\ spanic = FALSE
    /\ ResolveIdle
    /\ MirIdle
    /\ TravIdle

\* let mut sm_ast = sa.from_module(ast, ..)
FromModule ==
    /\ pass = "from_module"
    /\ sm_ast' = <<"Ok", from_module(parsed)>>
    /\ pass' = next_pass(pass)
    /\ UNCHANGED <<parsed, main_fn, stackVars, resolveVars, mirVars, travVars, moduleVars, streamVars>>

\* canonize_paths(&mut sm_ast, ..)?
CanonizePaths ==
    /\ pass = "canonize_paths"
    /\ sm_ast' = canonize_paths(sm_ast[2])
    /\ pass' = IF sm_ast'[1] = "Err" THEN "done" ELSE next_pass(pass)
    /\ UNCHANGED <<parsed, main_fn, stackVars, resolveVars, mirVars, travVars, moduleVars, streamVars>>

\* SymbolTable::add_item_defs_to_table(&mut sm_ast)?
AddItemDefsToTable ==
    /\ pass = "add_item_defs_to_table"
    /\ sm_ast' = add_item_defs_to_table(sm_ast[2])
    /\ pass' = IF sm_ast'[1] = "Err" THEN "done" ELSE next_pass(pass)
    /\ UNCHANGED <<parsed, main_fn, stackVars, resolveVars, mirVars, travVars, moduleVars, streamVars>>

\* TypeResolver::new(&sm_ast, ..).resolve_types()
ResolveTypes ==
    /\ pass = "resolve_types"
    /\ LET r == resolve_types(stack, head, sm_ast[2])
       IN  /\ sm_ast' = r.res
           /\ stack' = r.stack
           /\ head' = r.head
    /\ pass' = next_pass(pass)
    /\ UNCHANGED <<parsed, main_fn, ret, left, hist, spanic, resolveVars, mirVars, travVars, moduleVars, streamVars>>

PipeNext ==
    \/ FromModule
    \/ CanonizePaths
    \/ AddItemDefsToTable
    \/ ResolveTypes

SpecPipe == PipeInit /\ [][PipeNext]_vars

(***************************************************************************)
(* Properties of the passes of the resolver                                *)
(***************************************************************************)
\* the resolver has returned the resolved tree
ResolverReturnedOk == pass = "done" /\ sm_ast[1] = "Ok"

RECURSIVE node_types(_)
\* the types held by the contexts of a statement or expression and of the nodes
\* below it
node_types(node) ==
    {node_get_type(node)} \cup
    (IF node[1] = "If"
     THEN node_types(node[3]) \cup node_types(node[4])
          \cup (IF IsSome(node[5]) THEN node_types(node[5][2]) ELSE {})
     ELSE IF node[1] = "RoutineCall"
     THEN UNION { node_types(node[5][i]) : i \in 1..Len(node[5]) }
     ELSE IF node[1] = "ExpressionBlock"
     THEN UNION { node_types(node[4][i]) : i \in 1..Len(node[4]) }
          \cup (IF IsSome(node[5]) THEN node_types(node[5][2]) ELSE {})
     ELSE IF node[1] = "StructExpression"
     THEN UNION { node_types(node[4][i][2]) : i \in 1..Len(node[4]) }
     ELSE IF node[1] = "Bind" THEN node_types(node[6])
     ELSE IF node[1] \in {"Return", "YieldReturn"}
     THEN (IF IsSome(node[3]) THEN node_types(node[3][2]) ELSE {})
     ELSE IF node[1] = "Expression" THEN node_types(node[3])
     ELSE {})

\* the types held by the context of a routine and by the nodes of its body
routine_types(r) ==
    {r.ty} \cup UNION { node_types(r.body[i]) : i \in 1..Len(r.body) }

RECURSIVE module_types(_)
\* the types held by the contexts of the nodes of a module
module_types(m) ==
    {m.ty}
    \cup UNION { module_types(m.modules[i]) : i \in 1..Len(m.modules) }
    \cup UNION { routine_types(m.functions[i]) : i \in 1..Len(m.functions) }
    \cup UNION { routine_types(m.coroutines[i]) : i \in 1..Len(m.coroutines) }
    \cup { m.structs[i].ty : i \in 1..Len(m.structs) }
    \cup { m.externs[i].ty : i \in 1..Len(m.externs) }

\* C11: whenever the resolver returns successfully, no node of the output tree has
\* type Unknown and every Custom path inside the type of a node is canonical.
C11_NoUnknownAllCanonical ==
    ResolverReturnedOk =>
        \A ty \in module_types(sm_ast[2]) :
            /\ ty # Unknown
            /\ \A p \in CustomPaths(ty) : is_canonical(p)

RECURSIVE ItemsRegistered(_)
\* the table of the module holds the symbol of every item of the module, and so
\* for every module below it
ItemsRegistered(m) ==
    /\ \A i \in 1..Len(item_symbols(m)) :
           table_get(m.sym, item_symbols(m)[i].name) = Some(item_symbols(m)[i])
    /\ \A i \in 1..Len(m.modules) : ItemsRegistered(m.modules[i])

\* the functions of the root module whose body starts with a call of the function
\* declared right after them
ForwardCallers ==
    { i \in 1..(Len(parsed.functions) - 1) :
        parsed.functions[i].body[1] =
            <<"Expression", Unknown, CallOf(parsed.functions[i + 1].name)>> }

\* the names of the functions of the root module
DeclaredFunctions == { parsed.functions[i].name : i \in 1..Len(parsed.functions) }

\* C12: when the resolver starts on the tree, before any expression is
\* type-checked, the symbol of every module, routine, struct and extern is in the
\* table of the module that encloses it; a call of the function declared later in
\* the same module is never NotDefined, it resolves to the type that function
\* returns and to its canonical path.
C12_ItemsRegisteredFirst ==
    /\ pass = "resolve_types" => (sm_ast[1] = "Ok" /\ ItemsRegistered(sm_ast[2]))
    /\ (pass = "done" /\ sm_ast[1] = "Err" /\ sm_ast[2] = "NotDefined") =>
           sm_ast[3] \notin DeclaredFunctions
    /\ ResolverReturnedOk =>
           \A i \in ForwardCallers :
               LET call == sm_ast[2].functions[i].body[1][3]
               IN  /\ node_get_type(call) = parsed.functions[i + 1].ret_ty
                   /\ call[4] = <<CANONICAL_ROOT, "main", parsed.functions[i + 1].name>>

\* the resolver returned the tree of a module whose first function calls the
\* second, declared after it, and the call has the type the second returns
C12_Witness ==
    /\ ResolverReturnedOk
    /\ 1 \in ForwardCallers
    /\ node_get_type(sm_ast[2].functions[1].body[1][3]) = Bool

\* the parameters of the externs of the module that have a Custom type
CustomExternParams ==
    { <<i, j>> \in (1..Len(parsed.externs)) \X (1..1) :
        j <= Len(parsed.externs[i].params)
        /\ parsed.externs[i].params[j][2][1] = "Custom" }

\* C21: the resolver never ends abnormally, and a module with an extern that has
\* a Custom type in parameter position is rejected with a semantic error.
C21_ExternCustomParamIsError ==
    pass = "done" =>
        /\ sm_ast[1] \in {"Ok", "Err"}
        /\ CustomExternParams # {} => sm_ast[1] = "Err"

\* the routines of the root module in the order they are analyzed
RootRoutines == parsed.functions \o parsed.coroutines

\* the routines of the root module at the path of the entry point
EntryPoints ==
    { i \in 1..Len(RootRoutines) :
        <<CANONICAL_ROOT, parsed.name, RootRoutines[i].name>> = main_fn }

\* the routine is of Function kind, has no parameters and returns I64
IsValidMain(r) == r.def = "Function" /\ Len(r.params) = 0 /\ r.ret_ty = I64

\* the body of the routine starts with a statement that does not resolve: a return
\* of a literal of another type or a call of a name never declared
BodyFails(r) ==
    \/ r.body[1] = <<"Return", Unknown, Some(lit_not_of(r.ret_ty))>>
    \/ r.body[1] = <<"Expression", Unknown, CallOf("zz")>>

MainFnErrors == { <<"Err", "MainFnInvalidType">>, <<"Err", "MainFnInvalidParams">> }

\* C22: the routine at the path of the entry point resolves only if it is a
\* function without parameters that returns I64; when it is not, and the routines
\* analyzed before it resolve, the resolver fails with MainFnInvalidType or
\* MainFnInvalidParams whatever the body of the routine holds; a routine at any
\* other path never fails that way.
C22_EntryPointValidated ==
    pass = "done" =>
        /\ sm_ast[1] = "Ok" => \A i \in EntryPoints : IsValidMain(RootRoutines[i])
        /\ \A i \in EntryPoints :
               (~IsValidMain(RootRoutines[i])
                   /\ \A j \in 1..(i - 1) : ~BodyFails(RootRoutines[j]))
               => sm_ast \in MainFnErrors
        /\ sm_ast \in MainFnErrors => \E i \in EntryPoints : ~IsValidMain(RootRoutines[i])

\* the entry point is the function b, which returns bool and whose body does not
\* resolve: the resolver failed with MainFnInvalidType
C22_Witness ==
    /\ pass = "done"
    /\ sm_ast = <<"Err", "MainFnInvalidType">>
    /\ \E i \in EntryPoints : RootRoutines[i].name = "b" /\ BodyFails(RootRoutines[i])

\* the fields of the struct a struct expression names, as the root module
\* declares it
DeclaredFields(path) == table_get(ProjectRoot.sym, Last(path))[2].ty[2]

\* the values a resolved struct expression gives to the field called name
ValuesOf(node, name) == { i \in 1..Len(node[4]) : node[4][i][1] = name }

\* C29: a struct expression that resolves gives every field of the struct
\* definition a value exactly once.
C29_StructFieldsOnce ==
    (Resolved("StructExpression") /\ ret.res[1] = "Ok") =>
        \A k \in 1..Len(DeclaredFields(ret.name[3])) :
            Cardinality(ValuesOf(ret.res[2], DeclaredFields(ret.name[3])[k][1])) = 1

\* the symbol an occurrence of the bound name in the initializer refers to: the
\* one of the innermost table that holds the name before the bind
Enclosing == Innermost(ret.pre.stack, ret.pre.head, ret.name[3])

SelfBindResolved == ret.op = "analyze_bind"

\* C27: the right-hand side of a Bind is resolved before the bound name is
\* registered: the bound name in its own initializer refers to the enclosing
\* binding of that name when a variable of that name is visible (the initializer
\* takes that binding's type), and otherwise the Bind fails because the name is
\* not declared and nothing is registered
C27_RhsBeforeName ==
    SelfBindResolved =>
        /\ ~IsSome(Enclosing) =>
              /\ ret.res = <<"Err", "NotDefined", ret.name[3]>>
              /\ head = ret.pre.head /\ stack = ret.pre.stack
        /\ (IsSome(Enclosing) /\ ~IsItemType(Enclosing[2].ty)) =>
              IF Enclosing[2].ty # ret.name[4]
              THEN ret.res = <<"Err", "BindExpected", ret.name[4], Enclosing[2].ty>>
              ELSE IF IsSome(table_get(ret.pre.head, ret.name[3]))
              THEN ret.res[1] = "Err" /\ ret.res[2] = "AlreadyDeclared"
              ELSE /\ ret.res[1] = "Ok"
                   /\ ret.res[2][6] = <<"Identifier", Enclosing[2].ty, ret.name[3]>>
        /\ ret.res[1] = "Ok" => IsSome(Enclosing)

\* a self-referencing bind in a block of co resolved its initializer to the
\* parameter p of the routine and then shadowed it
C27_Witness ==
    /\ SelfBindResolved
    /\ ret.res[1] = "Ok"
    /\ ~IsSome(table_get(ret.pre.head, ret.name[3]))
    /\ IsSome(table_get(head, ret.name[3]))

\* a self-referencing bind of a name that no scope holds failed
C27_WitnessUndeclared ==
    /\ SelfBindResolved
    /\ ~IsSome(Enclosing)
    /\ ret.res = <<"Err", "NotDefined", ret.name[3]>>

(***************************************************************************)
(* The control flow graph of a finished Procedure                          *)
(***************************************************************************)
\* the targets of a block's terminator
Targets(bl, id) ==
    LET t == bl[id + 1].term
    IN  IF t[1] = "GoTo" THEN {t[2]}
        ELSE IF t[1] = "CondGoTo" THEN {t[3], t[4]}
        ELSE {}

RECURSIVE ReachFrom(_, _)
\* the blocks reached from the blocks S by following terminator targets
ReachFrom(bl, S) ==
    LET N == S \cup UNION { Targets(bl, b) : b \in S }
    IN  IF N = S THEN S ELSE ReachFrom(bl, N)

\* C23: in every Procedure the builder produces, at least one Return-terminated
\* block is reachable from the entry block by following terminator targets
C23_ReturnReachable ==
    mpc = "done" =>
        \E b \in ReachFrom(blocks, {ENTRY_BB}) : blocks[b + 1].term = <<"Return">>

\* a finished Procedure whose Return-terminated block is not the entry block: it
\* is reached through the arms of an if-expression with an else arm
C23_Witness ==
    /\ mpc = "done"
    /\ blocks[ENTRY_BB + 1].term[1] = "CondGoTo"
    /\ \E f \in Ifs : f.has_else /\ f.cond_bb = ENTRY_BB
    /\ \E b \in ReachFrom(blocks, {ENTRY_BB}) \ {ENTRY_BB} : blocks[b + 1].term = <<"Return">>

\* C28: during the lowering of one routine each block's terminator is set at
\* most once: no block that already has a terminator is given another one
C28_TerminatorSetOnce ==
    \A i \in 1..Len(mlog.terms) : ~mlog.terms[i].had

\* the temporaries an operand reads
TempsRead(o) == IF o[1] = "LValue" /\ o[2][1] = "Temp" THEN {o[2][2]} ELSE {}

\* the temporaries an rvalue reads
RValueReads(rv) ==
    IF rv[1] = "Use" THEN TempsRead(rv[2])
    ELSE IF rv[1] = "BinOp" THEN TempsRead(rv[3]) \cup TempsRead(rv[4])
    ELSE TempsRead(rv[3])

\* the temporaries a terminator reads
TermReads(t) == IF t[1] = "CondGoTo" THEN TempsRead(t[2]) ELSE {}

\* the temporary a statement assigns
TempsWritten(stm) == IF stm[2][1] = "Temp" THEN {stm[2][2]} ELSE {}

RECURSIVE StmsAssigned(_, _, _)
\* the temporaries assigned after the statements from i on, given those assigned
\* before; None when a statement reads one that is not assigned
StmsAssigned(stms, i, A) ==
    IF i > Len(stms) THEN Some(A)
    ELSE IF ~(RValueReads(stms[i][3]) \subseteq A) THEN None
    ELSE StmsAssigned(stms, i + 1, A \cup TempsWritten(stms[i]))

RECURSIVE AssignedBeforeRead(_, _, _, _)
\* along every path of at most n further blocks from block id, entered with the
\* temporaries A assigned, no statement or terminator reads an unassigned one
AssignedBeforeRead(bl, id, A, n) ==
    LET a == StmsAssigned(bl[id + 1].stms, 1, A)
    IN  /\ IsSome(a)
        /\ TermReads(bl[id + 1].term) \subseteq a[2]
        /\ n > 0 => \A t \in Targets(bl, id) : AssignedBeforeRead(bl, t, a[2], n - 1)

\* C30: in every Procedure the builder produces, along every path from the entry
\* block that follows terminator targets, each temporary is assigned before any
\* statement or terminator reads it
C30_TempsAssignedBeforeRead ==
    mpc = "done" => AssignedBeforeRead(blocks, ENTRY_BB, {}, Len(blocks))

\* a finished Procedure where the merge block of an if-expression reads the
\* result temporary that both arms assigned
C30_Witness ==
    /\ mpc = "done"
    /\ \E f \in Ifs :
          /\ IsSome(f.result)
          /\ \E i \in 1..Len(Block(f.merge_bb).stms) :
                f.result[2] \in RValueReads(Block(f.merge_bb).stms[i][3])
          /\ TempsWritten(Last(Block(f.then_end).stms)) = {f.result[2]}
          /\ TempsWritten(Last(Block(f.else_end[2]).stms)) = {f.result[2]}
    /\ AssignedBeforeRead(blocks, ENTRY_BB, {}, Len(blocks))

\* the body of fn test() has been lowered: the one body that declares x and y
LoweredTest ==
    /\ mpc = "done"
    /\ Len(mvars) = 2
    /\ mvars[1].name = "x" /\ mvars[2].name = "y"

\* the statements of a block that store into a user variable
BindStores(b) == { i \in 1..Len(b.stms) : b.stms[i][2][1] = "Var" }

\* C24: lowering fn test() gives an entry block with the two binds and a
\* conditional branch, a then block that assigns 13 to a shared temporary and
\* branches to merge, an else block that assigns 29 to the same temporary and
\* branches to merge, and a merge block whose final statement's right-hand side
\* reads that temporary before the Return terminator
C24_TestShape ==
    LoweredTest =>
        /\ Len(blocks) = 4
        /\ Cardinality(BindStores(blocks[1])) = 2
        /\ blocks[1].term[1] = "CondGoTo" /\ blocks[1].term[3] = 1 /\ blocks[1].term[4] = 2
        /\ blocks[2] = [stms |-> << Assign(Temp(0), Use(Constant(<<"I64", 13>>))) >>,
                        term |-> <<"GoTo", 3>>]
        /\ blocks[3] = [stms |-> << Assign(Temp(0), Use(Constant(<<"I64", 29>>))) >>,
                        term |-> <<"GoTo", 3>>]
        /\ Len(blocks[4].stms) > 0
        /\ 0 \in RValueReads(Last(blocks[4].stms)[3])
        /\ blocks[4].term = <<"Return">>

\* the shape the builder gives fn test(): the store of the bind of y is the
\* first statement of the merge block, the entry block holds the bind of x alone
C24_ShapeBuilt ==
    LoweredTest =>
        /\ Len(blocks) = 4
        /\ blocks[1] = [stms |-> << Assign(Var(0), Use(Constant(<<"I64", 5>>))) >>,
                        term |-> <<"CondGoTo", Constant(<<"Bool", 1>>), 1, 2>>]
        /\ blocks[2] = [stms |-> << Assign(Temp(0), Use(Constant(<<"I64", 13>>))) >>,
                        term |-> <<"GoTo", 3>>]
        /\ blocks[3] = [stms |-> << Assign(Temp(0), Use(Constant(<<"I64", 29>>))) >>,
                        term |-> <<"GoTo", 3>>]
        /\ blocks[4].stms[1] = Assign(Var(1), Use(LValueOp(Temp(0))))
        /\ Len(blocks[4].stms) = 6
        /\ Last(blocks[4].stms) = Assign(ReturnPointer, Use(LValueOp(Temp(4))))
        /\ blocks[4].term = <<"Return">>

\* fn test() has been lowered: the merge block starts with the store of the
\* shared temporary into y and ends with the store of the sum and Return
C24_Witness ==
    /\ LoweredTest
    /\ Len(blocks) = 4
    /\ blocks[4].stms[1] = Assign(Var(1), Use(LValueOp(Temp(0))))
    /\ blocks[4].term = <<"Return">>

(***************************************************************************)
(* ast::Module (ast/module.rs): the items of a module.  An item is         *)
(*   <<"Routine", def, name>>  <<"Struct", name>>  <<"Extern", name>>       *)
(* and the module a record of its name and its lists.                      *)
(***************************************************************************)
\* the most items added to the module
MaxItems == 3

\* the names of the items added
ItemNames == {"a", "b", "c"}

\* the routine definitions given to add_function, add_coroutine and add_item
RoutineDefs == { <<"Routine", d, n>> : d \in {"Function", "Coroutine"}, n \in ItemNames }

StructDefs == { <<"Struct", n>> : n \in ItemNames }

Externs == { <<"Extern", n>> : n \in ItemNames }

\* Item::get_name
item_get_name(i) == i[Len(i)]

\* Module::new
module_new(name) ==
    [name |-> name, modules |-> <<>>, functions |-> <<>>, coroutines |-> <<>>,
     structs |-> <<>>, externs |-> <<>>]

\* iter().find(|i| i.get_name() == name)
find_item(items, name) ==
    IF \E k \in 1..Len(items) : item_get_name(items[k]) = name
    THEN Some(items[CHOOSE k \in 1..Len(items) :
                      /\ item_get_name(items[k]) = name
                      /\ \A j \in 1..(k - 1) : item_get_name(items[j]) # name])
    ELSE None

\* Option::or
or(a, b) == IF IsSome(a) THEN a ELSE b

\* a plausible slip: only the routines are searched
module_get_item_routines_only(m, name) ==
    or(find_item(m.functions, name), find_item(m.coroutines, name))

\* Module::get_item: the functions, then the coroutines, the structs, the externs
module_get_item(m, name) ==
    or(find_item(m.functions, name),
       or(find_item(m.coroutines, name),
          or(find_item(m.structs, name), find_item(m.externs, name))))

AlreadyExists(name) == <<"Err", name, "already exists in module">>

\* Module::add_function
add_function(m, f) ==
    IF ~IsSome(module_get_item(m, item_get_name(f)))
    THEN [module |-> [m EXCEPT !.functions = Append(@, f)], res |-> <<"Ok">>]
    ELSE [module |-> m, res |-> AlreadyExists(item_get_name(f))]

\* Module::add_coroutine
add_coroutine(m, c) ==
    IF ~IsSome(module_get_item(m, item_get_name(c)))
    THEN [module |-> [m EXCEPT !.coroutines = Append(@, c)], res |-> <<"Ok">>]
    ELSE [module |-> m, res |-> AlreadyExists(item_get_name(c))]

\* Module::add_struct
add_struct(m, sd) ==
    IF ~IsSome(module_get_item(m, item_get_name(sd)))
    THEN [module |-> [m EXCEPT !.structs = Append(@, sd)], res |-> <<"Ok">>]
    ELSE [module |-> m, res |-> AlreadyExists(item_get_name(sd))]

\* Module::add_extern
add_extern(m, e) ==
    IF ~IsSome(module_get_item(m, item_get_name(e)))
    THEN [module |-> [m EXCEPT !.externs = Append(@, e)], res |-> <<"Ok">>]
    ELSE [module |-> m, res |-> AlreadyExists(item_get_name(e))]

\* Module::add_item
add_item(m, i) ==
    IF i[1] = "Routine"
    THEN IF i[2] = "Function" THEN add_function(m, i) ELSE add_coroutine(m, i)
    ELSE IF i[1] = "Struct" THEN add_struct(m, i)
    ELSE add_extern(m, i)

\* all items of the module, list after list
all_items(m) == m.functions \o m.coroutines \o m.structs \o m.externs

ModuleInit ==
    /\ ast_module = module_new("m")
    /\ mret = [op |-> "new", arg |-> None, res |-> <<"Ok">>, pre |-> module_new("m")]
    /\ stack = <<>>
    /\ head = SymbolTable(Local, <<>>)
    /\ ret = NoRet
    /\ left = None
    /\ hist = <<>>
    /\ spanic = FALSE
    /\ ResolveIdle
    /\ MirIdle
    /\ TravIdle
    /\ PipeIdle
    /\ StreamIdle

\* the module after a call and the record of the call
Called(op, arg, r) ==
    /\ Len(all_items(ast_module)) < MaxItems
    /\ ast_module' = r.module
    /\ mret' = [op |-> op, arg |-> arg, res |-> r.res, pre |-> ast_module]
    /\ UNCHANGED <<stackVars, resolveVars, mirVars, travVars, pipeVars, streamVars>>

AddFunction(f) == Called("add_function", f, add_function(ast_module, f))

AddCoroutine(c) == Called("add_coroutine", c, add_coroutine(ast_module, c))

AddStruct(sd) == Called("add_struct", sd, add_struct(ast_module, sd))

AddExtern(e) == Called("add_extern", e, add_extern(ast_module, e))

AddItem(i) == Called("add_item", i, add_item(ast_module, i))

ModuleNext ==
    \/ \E f \in RoutineDefs : AddFunction(f)
    \/ \E c \in RoutineDefs : AddCoroutine(c)
    \/ \E sd \in StructDefs : AddStruct(sd)
    \/ \E e \in Externs : AddExtern(e)
    \/ \E i \in RoutineDefs \cup StructDefs \cup Externs : AddItem(i)

SpecModule == ModuleInit /\ [][ModuleNext]_vars

\* the names of the items of a module, of all four kinds
NamesUsed(m) == { item_get_name(all_items(m)[k]) : k \in 1..Len(all_items(m)) }

\* the list an add call appends to
ListOf(op, arg) ==
    IF op = "add_function" THEN "functions"
    ELSE IF op = "add_coroutine" THEN "coroutines"
    ELSE IF op = "add_struct" THEN "structs"
    ELSE IF op = "add_extern" THEN "externs"
    ELSE IF arg[1] = "Struct" THEN "structs"
    ELSE IF arg[1] = "Extern" THEN "externs"
    ELSE IF arg[2] = "Function" THEN "functions"
    ELSE "coroutines"

\* C25: after any sequence of add_function, add_coroutine, add_struct, add_extern
\* and add_item calls no two items of the module share a name across the four
\* kinds: an add whose name is already used by an item of any kind returns an
\* "already exists in module" error and leaves the item lists unchanged, any
\* other add appends the item to the list of its kind
C25_UniqueItemNames ==
    /\ Cardinality(NamesUsed(ast_module)) = Len(all_items(ast_module))
    /\ mret.op # "new" =>
          IF item_get_name(mret.arg) \in NamesUsed(mret.pre)
          THEN /\ mret.res = AlreadyExists(item_get_name(mret.arg))
               /\ ast_module = mret.pre
          ELSE /\ mret.res = <<"Ok">>
               /\ ast_module =
                    [mret.pre EXCEPT ![ListOf(mret.op, mret.arg)] = Append(@, mret.arg)]

\* a function was added under the name of an extern of the module and refused
C25_Witness ==
    /\ mret.op \in {"add_function", "add_item"}
    /\ mret.arg[1] = "Routine"
    /\ \E k \in 1..Len(mret.pre.externs) :
          item_get_name(mret.pre.externs[k]) = item_get_name(mret.arg)
    /\ mret.res[1] = "Err"
    /\ ast_module = mret.pre

(***************************************************************************)
(* TokenStream (compiler/parser/tokenstream.rs): a cursor over the tokens  *)
(* of the lexer.  A Lex is <<"LParen">>, <<"RParen">>, <<"Add">> or         *)
(* <<"I64", v>>, a Token the record of its line l, offset o and Lex s.     *)
(***************************************************************************)
\* the most tokens in a stream
MaxTokens == 3

\* the Lex values of the tokens
StreamLexes == { <<"LParen">>, <<"I64", 2>>, <<"Add">> }

\* the Lex values the callers test for
Patterns == { <<"LParen">>, <<"RParen">>, <<"I64", 0>>, <<"Add">> }

\* the pattern lists given to next_ifn, test_ifn, next_if_one_of and test_if_one_of
PatternLists ==
    { <<>>,
      << <<"LParen">> >>,
      << <<"LParen">>, <<"I64", 0>> >>,
      << <<"RParen">>, <<"I64", 0>> >>,
      << <<"I64", 0>>, <<"Add">> >>,
      << <<"Add">>, <<"Add">> >>,
      << <<"I64", 0>>, <<"I64", 0>>, <<"LParen">> >> }

\* the tokens of the Lex values, one per offset, on line 1
TokensOf(lexes) == [k \in 1..Len(lexes) |-> [l |-> 1, o |-> k - 1, s |-> lexes[k]]]

TokenStreams == { TokensOf(ls) : ls \in UNION { [1..n -> StreamLexes] : n \in 0..MaxTokens } }

\* Token::token_eq: the same kind of Lex, whatever value it carries
token_eq(tok, lex) == tok.s[1] = lex[1]

\* the cursor after a call and what the call returned
Moved(idx, res) == [index |-> idx, res |-> res]

\* TokenStream::next
next_token(toks, idx) ==
    IF idx >= Len(toks) THEN Moved(idx, None)
    ELSE Moved(idx + 1, Some(toks[idx + 1]))

\* TokenStream::peek
peek(toks, idx) == IF idx < Len(toks) THEN Some(toks[idx + 1]) ELSE None

\* TokenStream::peek_at
peek_at(toks, idx, i) == IF idx + i < Len(toks) THEN Some(toks[idx + i + 1]) ELSE None

\* TokenStream::test_if
test_if(toks, idx, test) ==
    IF ~IsSome(peek(toks, idx)) THEN FALSE ELSE token_eq(peek(toks, idx)[2], test)

RECURSIVE test_ifn_from(_, _, _, _)
\* the loop of test_ifn from i on: false at the first token that is missing or
\* is not of the kind tested for
test_ifn_from(toks, idx, test, i) ==
    IF i >= Len(test) THEN TRUE
    ELSE IF ~IsSome(peek_at(toks, idx, i)) THEN FALSE
    ELSE IF ~token_eq(peek_at(toks, idx, i)[2], test[i + 1]) THEN FALSE
    ELSE test_ifn_from(toks, idx, test, i + 1)

\* TokenStream::test_ifn
test_ifn(toks, idx, test) == test_ifn_from(toks, idx, test, 0)

\* TokenStream::test_if_one_of
test_if_one_of(toks, idx, set) ==
    IF ~IsSome(peek(toks, idx)) THEN FALSE
    ELSE \E k \in 1..Len(set) : token_eq(peek(toks, idx)[2], set[k])

\* TokenStream::next_if
next_if(toks, idx, test) ==
    IF test_if(toks, idx, test) THEN next_token(toks, idx) ELSE Moved(idx, None)

\* a plausible slip: the tokens are taken without the test
next_ifn_untested(toks, idx, test) ==
    Moved(idx + Len(test), Some(<<>>))

\* TokenStream::next_ifn
next_ifn(toks, idx, test) ==
    LET end == idx + Len(test)
    IN  IF test_ifn(toks, idx, test)
        THEN Moved(end, Some(SubSeq(toks, idx + 1, end)))
        ELSE Moved(idx, None)

\* TokenStream::next_if_one_of
next_if_one_of(toks, idx, set) ==
    IF test_if_one_of(toks, idx, set) THEN next_token(toks, idx) ELSE Moved(idx, None)

\* next_must_be once the token has been peeked and next_if has answered
next_must_be_found(test, found, r) ==
    IF IsSome(r.res) THEN Moved(r.index, <<"Ok", r.res[2]>>)
    ELSE Moved(r.index, <<"Err", found.l, "ExpectedButFound", test, found.s>>)

\* TokenStream::next_must_be
next_must_be(toks, idx, test) ==
    IF ~IsSome(peek(toks, idx)) THEN Moved(idx, <<"Err", 0, "EOF">>)
    ELSE next_must_be_found(test, peek(toks, idx)[2], next_if(toks, idx, test))

\* TokenStream::new
StreamInit ==
    /\ tokens \in TokenStreams
    /\ index = 0
    /\ tret = [op |-> "new", arg |-> None, res |-> None, pre |-> 0]
    /\ stack = <<>>
    /\ head = SymbolTable(Local, <<>>)
    /\ ret = NoRet
    /\ left = None
    /\ hist = <<>>
    /\ spanic = FALSE
    /\ ResolveIdle
    /\ MirIdle
    /\ TravIdle
    /\ PipeIdle
    /\ ModuleIdle

\* a call that takes &mut self: the cursor is what the call leaves
StreamCall(op, arg, r) ==
    /\ index' = r.index
    /\ tret' = [op |-> op, arg |-> arg, res |-> r.res, pre |-> index]
    /\ UNCHANGED <<tokens, stackVars, resolveVars, mirVars, travVars, pipeVars, moduleVars>>

\* a call that takes &self
StreamQuery(op, arg, res) ==
    /\ tret' = [op |-> op, arg |-> arg, res |-> res, pre |-> index]
    /\ UNCHANGED <<tokens, index, stackVars, resolveVars, mirVars, travVars, pipeVars,
                   moduleVars>>

StreamNext == StreamCall("next", None, next_token(tokens, index))

NextIf(test) == StreamCall("next_if", test, next_if(tokens, index, test))

NextIfn(test) == StreamCall("next_ifn", test, next_ifn(tokens, index, test))

NextIfOneOf(set) == StreamCall("next_if_one_of", set, next_if_one_of(tokens, index, set))

NextMustBe(test) == StreamCall("next_must_be", test, next_must_be(tokens, index, test))

Peek == StreamQuery("peek", None, peek(tokens, index))

TestIf(test) == StreamQuery("test_if", test, test_if(tokens, index, test))

TestIfn(test) == StreamQuery("test_ifn", test, test_ifn(tokens, index, test))

TestIfOneOf(set) == StreamQuery("test_if_one_of", set, test_if_one_of(tokens, index, set))

StreamStep ==
    \/ StreamNext
    \/ \E t \in Patterns : NextIf(t)
    \/ \E ts \in PatternLists : NextIfn(ts)
    \/ \E ts \in PatternLists : NextIfOneOf(ts)
    \/ \E t \in Patterns : NextMustBe(t)
    \/ Peek
    \/ \E t \in Patterns : TestIf(t)
    \/ \E ts \in PatternLists : TestIfn(ts)
    \/ \E ts \in PatternLists : TestIfOneOf(ts)

SpecStream == StreamInit /\ [][StreamStep]_vars

\* the tokens at the cursor are of the kinds of the patterns, one after another
Upcoming(idx, pats) ==
    /\ idx + Len(pats) <= Len(tokens)
    /\ \A k \in 1..Len(pats) : tokens[idx + k].s[1] = pats[k][1]

\* the token at the cursor is of the kind of one of the patterns
UpcomingOneOf(idx, pats) ==
    /\ idx < Len(tokens)
    /\ \E k \in 1..Len(pats) : tokens[idx + 1].s[1] = pats[k][1]

\* C26: next_if, next_if_one_of and next_ifn move the cursor only when the
\* upcoming tokens match, by one position, or by n positions for next_ifn given
\* n patterns, and otherwise leave it where it was; peek and the test_* queries
\* never move it; under any sequence of next, next_if, next_if_one_of, next_ifn
\* and next_must_be from a fresh stream the cursor never exceeds the number of
\* tokens
C26_CursorMoves ==
    /\ index <= Len(tokens)
    /\ tret.op = "next_if" =>
          index = IF Upcoming(tret.pre, <<tret.arg>>) THEN tret.pre + 1 ELSE tret.pre
    /\ tret.op = "next_if_one_of" =>
          index = IF UpcomingOneOf(tret.pre, tret.arg) THEN tret.pre + 1 ELSE tret.pre
    /\ tret.op = "next_ifn" =>
          index = IF Upcoming(tret.pre, tret.arg) THEN tret.pre + Len(tret.arg) ELSE tret.pre
    /\ tret.op \in {"peek", "test_if", "test_ifn", "test_if_one_of"} => index = tret.pre

\* next_ifn took two tokens that matched its two patterns, the second an integer
\* of another value, and left the cursor at the end of the stream
C26_Witness ==
    /\ tret.op = "next_ifn"
    /\ tret.pre > 0
    /\ Len(tret.arg) = 2
    /\ tret.arg[2] = <<"I64", 0>>
    /\ IsSome(tret.res)
    /\ index = tret.pre + 2
    /\ index = Len(tokens)
====
